---------------------------- MODULE Spec2Model ----------------------------
(***************************************************************************)
(* A model of the Solidity style checker (solidity-style-checker/checker.js *)
(* with its configuration build-config.js).                                *)
(*                                                                         *)
(* Text is a sequence of characters, each character a one-character        *)
(* string.  The regular expressions of checker.js are values interpreted   *)
(* by a backtracking matcher (MatchHere) that follows the ECMAScript        *)
(* priority order: greedy quantifiers try the longest run first, lazy ones  *)
(* the shortest, alternatives are tried left to right.                     *)
(***************************************************************************)
EXTENDS Integers, Sequences, FiniteSets, TLC

(***************************************************************************)
(* Characters                                                              *)
(***************************************************************************)
NL  == "\n"
TAB == "\t"
CR  == "\r"
SP  == " "

Upper == {"A","B","C","D","E","F","G","H","I","J","K","L","M",
          "N","O","P","Q","R","S","T","U","V","W","X","Y","Z"}
Lower == {"a","b","c","d","e","f","g","h","i","j","k","l","m",
          "n","o","p","q","r","s","t","u","v","w","x","y","z"}
Digit == {"0","1","2","3","4","5","6","7","8","9"}
\* \s of the regular expressions and the characters String.prototype.trim strips
WS    == {SP, TAB, NL, CR}
\* [A-Za-z_]
IdStart == Upper \cup Lower \cup {"_"}
\* [A-Za-z0-9_], also the word characters of \b
IdChar  == IdStart \cup Digit
\* [a-zA-Z0-9]
AlNum   == Upper \cup Lower \cup Digit
\* [A-Z0-9_]
UpperDigitUnderscore == Upper \cup Digit \cup {"_"}

(***************************************************************************)
(* Regular expressions: a sequence of nodes.                               *)
(***************************************************************************)
Unbounded == -1

Node(k, s, set, neg, min, max, lazy, alts, g) ==
    [k |-> k, s |-> s, set |-> set, neg |-> neg, min |-> min, max |-> max,
     lazy |-> lazy, alts |-> alts, g |-> g]

\* a literal string
Lit(s)          == Node("lit", s, {}, FALSE, 0, 0, FALSE, <<>>, 0)
\* [set]{min,max}, greedy
Cls(set, min, max)  == Node("cls", <<>>, set, FALSE, min, max, FALSE, <<>>, 0)
\* [^set]{min,max}, greedy
NCls(set, min, max) == Node("cls", <<>>, set, TRUE, min, max, FALSE, <<>>, 0)
\* [^set]{min,max}?, lazy
NClsLazy(set, min, max) == Node("cls", <<>>, set, TRUE, min, max, TRUE, <<>>, 0)
\* (?:a|b|...), alternatives tried left to right
Alt(alts)       == Node("alt", <<>>, {}, FALSE, 0, 0, FALSE, alts, 0)
\* the opening and the closing parenthesis of capture group g
Open(g)         == Node("open", <<>>, {}, FALSE, 0, 0, FALSE, <<>>, g)
Close(g)        == Node("close", <<>>, {}, FALSE, 0, 0, FALSE, <<>>, g)
\* ^ under the m flag, ^ and $ without it, \b
BeginLine       == Node("bol", <<>>, {}, FALSE, 0, 0, FALSE, <<>>, 0)
BeginInput      == Node("bos", <<>>, {}, FALSE, 0, 0, FALSE, <<>>, 0)
EndInput        == Node("eos", <<>>, {}, FALSE, 0, 0, FALSE, <<>>, 0)
WordBoundary    == Node("wb", <<>>, {}, FALSE, 0, 0, FALSE, <<>>, 0)

Fail == [ok |-> FALSE, start |-> 0, end |-> 0, caps |-> <<>>]

\* an unset capture group: start beyond end
NoCaps == [g \in 1..3 |-> <<1, 0>>]

InClass(n, c) == IF n.neg THEN c \notin n.set ELSE c \in n.set

\* the least and the greatest element of a non-empty set of numbers
Min(S) == CHOOSE x \in S : \A y \in S : x <= y
Max(S) == CHOOSE x \in S : \A y \in S : x >= y

\* the number of consecutive characters of the class from position p, at most n.max
RunLen(n, s, p) ==
    LET stop == Min({q \in p..(Len(s) + 1) : q = Len(s) + 1 \/ ~InClass(n, s[q])})
    IN IF n.max # Unbounded /\ stop - p > n.max THEN n.max ELSE stop - p

IsWordAt(s, p) == p >= 1 /\ p <= Len(s) /\ s[p] \in IdChar

\* The match of the node sequence re at position p of s (positions from 1):
\* the first in priority order, or Fail.  end is the position after the match.
RECURSIVE MatchHere(_, _, _, _), TryCount(_, _, _, _, _, _, _), TryAlts(_, _, _, _, _, _)
MatchHere(re, s, p, caps) ==
    IF Len(re) = 0 THEN [ok |-> TRUE, start |-> 0, end |-> p, caps |-> caps]
    ELSE LET n    == Head(re)
             rest == Tail(re)
         IN CASE n.k = "lit" ->
                   IF p + Len(n.s) - 1 <= Len(s) /\ SubSeq(s, p, p + Len(n.s) - 1) = n.s
                   THEN MatchHere(rest, s, p + Len(n.s), caps)
                   ELSE Fail
              [] n.k = "cls" ->
                   LET avail == RunLen(n, s, p)
                   IN IF avail < n.min THEN Fail
                      ELSE TryCount(n, rest, s, p, caps, n.min, avail)
              [] n.k = "alt" -> TryAlts(n.alts, 1, rest, s, p, caps)
              [] n.k = "open" ->
                   MatchHere(rest, s, p, [caps EXCEPT ![n.g] = <<p, p - 1>>])
              [] n.k = "close" ->
                   MatchHere(rest, s, p, [caps EXCEPT ![n.g] = <<@[1], p - 1>>])
              [] n.k = "bol" ->
                   IF p = 1 \/ s[p - 1] \in {NL, CR} THEN MatchHere(rest, s, p, caps) ELSE Fail
              [] n.k = "bos" ->
                   IF p = 1 THEN MatchHere(rest, s, p, caps) ELSE Fail
              [] n.k = "eos" ->
                   IF p = Len(s) + 1 THEN MatchHere(rest, s, p, caps) ELSE Fail
              [] n.k = "wb" ->
                   IF IsWordAt(s, p - 1) # IsWordAt(s, p)
                   THEN MatchHere(rest, s, p, caps) ELSE Fail

\* the quantified class n taking some count c of characters, lo <= c <= hi, then
\* the rest: of the counts with which the rest matches, the greatest when the
\* quantifier is greedy and the least when it is lazy, as backtracking finds it
TryCount(n, rest, s, p, caps, lo, hi) ==
    CHOOSE found \in
        {IF \A t \in tries : ~t.r.ok THEN Fail
         ELSE (CHOOSE t \in tries :
                  /\ t.r.ok
                  /\ \A u \in tries :
                        u.r.ok => IF n.lazy THEN t.c <= u.c ELSE t.c >= u.c).r :
         tries \in {{[c |-> c, r |-> MatchHere(rest, s, p + c, caps)] : c \in lo..hi}}} : TRUE

TryAlts(alts, i, rest, s, p, caps) ==
    IF i > Len(alts) THEN Fail
    ELSE CHOOSE found \in
             {IF r.ok THEN r ELSE TryAlts(alts, i + 1, rest, s, p, caps) :
              r \in {MatchHere(alts[i] \o rest, s, p, caps)}} : TRUE

\* RegExp.prototype.exec from position from (lastIndex + 1): the leftmost match
ExecFrom(re, s, from) ==
    CHOOSE found \in
        {IF starts = {} THEN Fail
         ELSE CHOOSE m \in {[MatchHere(re, s, first, NoCaps) EXCEPT !.start = first] :
                            first \in {Min(starts)}} : TRUE :
         starts \in {{p \in from..(Len(s) + 1) : MatchHere(re, s, p, NoCaps).ok}}} : TRUE

\* the matches of a g-flag expression's exec loop, in order: each search starts
\* where the previous match ended
RECURSIVE ExecAll(_, _, _)
ExecAll(re, s, from) ==
    CHOOSE found \in
        {IF ~r.ok THEN <<>> ELSE <<r>> \o ExecAll(re, s, r.end) :
         r \in {ExecFrom(re, s, from)}} : TRUE

\* the text of capture group g of match m
Group(s, m, g) == SubSeq(s, m.caps[g][1], m.caps[g][2])

\* RegExp.prototype.test and String.prototype.match without the g flag
Test(re, s) == ExecFrom(re, s, 1).ok


(***************************************************************************)
(* The string literals of checker.js, as character sequences.              *)
(***************************************************************************)
\* "SPDX-License-Identifier:"
SpdxMarker == <<"S","P","D","X","-","L","i","c","e","n","s","e","-","I","d","e","n","t","i","f","i","e","r",":">>
\* "pragma solidity"
PragmaSolidity == <<"p","r","a","g","m","a"," ","s","o","l","i","d","i","t","y">>
\* "import "
ImportKw == <<"i","m","p","o","r","t"," ">>
\* "import"
ImportWord == <<"i","m","p","o","r","t">>
\* "from"
FromWord == <<"f","r","o","m">>
\* "contract"
ContractWord == <<"c","o","n","t","r","a","c","t">>
\* "function"
FunctionWord == <<"f","u","n","c","t","i","o","n">>
\* "event"
EventWord == <<"e","v","e","n","t">>
\* "constant"
ConstantWord == <<"c","o","n","s","t","a","n","t">>
\* "public"
PublicWord == <<"p","u","b","l","i","c">>
\* "external"
ExternalWord == <<"e","x","t","e","r","n","a","l">>
\* "internal"
InternalWord == <<"i","n","t","e","r","n","a","l">>
\* "private"
PrivateWord == <<"p","r","i","v","a","t","e">>
\* "constructor"
ConstructorWord == <<"c","o","n","s","t","r","u","c","t","o","r">>
\* "receive"
ReceiveWord == <<"r","e","c","e","i","v","e">>
\* "fallback"
FallbackWord == <<"f","a","l","l","b","a","c","k">>
\* "memory"
MemoryWord == <<"m","e","m","o","r","y">>
\* "storage"
StorageWord == <<"s","t","o","r","a","g","e">>
\* "calldata"
CalldataWord == <<"c","a","l","l","d","a","t","a">>

(***************************************************************************)
(* String.prototype operations                                             *)
(***************************************************************************)
\* s.startsWith(t)
StartsWith(s, t) == Len(t) <= Len(s) /\ SubSeq(s, 1, Len(t)) = t
\* s.endsWith(t)
EndsWith(s, t) == Len(t) <= Len(s) /\ SubSeq(s, Len(s) - Len(t) + 1, Len(s)) = t
\* s.includes(t)
Includes(s, t) == \E p \in 1..(Len(s) - Len(t) + 1) : SubSeq(s, p, p + Len(t) - 1) = t

\* s.trim()
Trim(s) ==
    LET kept == {p \in 1..Len(s) : s[p] \notin WS}
    IN IF kept = {} THEN <<>> ELSE SubSeq(s, Min(kept), Max(kept))

\* s.split(sep) for a one-character separator: never empty, '' gives ['']
Split(s, sep) ==
    LET seps  == {p \in 1..Len(s) : s[p] = sep}
        \* the position of the k-th separator; 0 and Len(s) + 1 bound the string
        at(k) == IF k = 0 THEN 0
                 ELSE IF k > Cardinality(seps) THEN Len(s) + 1
                 ELSE CHOOSE p \in seps : Cardinality({q \in seps : q < p}) = k - 1
    IN [k \in 1..(Cardinality(seps) + 1) |-> SubSeq(s, at(k - 1) + 1, at(k) - 1)]

\* lines.findIndex(pred), given the predicate's value on every line, with indexes
\* from 1 and 0 when there is none (the code's are from 0, and -1 when there is none)
FindIndex(flags) ==
    IF \A i \in 1..Len(flags) : ~flags[i] THEN 0
    ELSE CHOOSE i \in 1..Len(flags) : flags[i] /\ \A j \in 1..(i - 1) : ~flags[j]

\* a variant of LineOfOffset that counts the lines from 0
LineOfOffsetFromZero(s, p) == Cardinality({q \in 1..(p - 1) : s[q] = NL})

\* content.substring(0, match.index).split('\n').length: the line of position p
LineOfOffset(s, p) == 1 + Cardinality({q \in 1..(p - 1) : s[q] = NL})

(***************************************************************************)
(* Naming convention helpers                                               *)
(***************************************************************************)
\* a variant of isCapWords that lets underscores pass
isCapWordsOrUnderscores(name) ==
    Test(<<BeginInput, Cls(Upper, 1, 1), Cls(IdChar, 0, Unbounded), EndInput>>, name)

\* /^[A-Z][a-zA-Z0-9]*$/
isCapWords(name) ==
    Test(<<BeginInput, Cls(Upper, 1, 1), Cls(AlNum, 0, Unbounded), EndInput>>, name)
\* /^[a-z][a-zA-Z0-9]*$/
isMixedCase(name) ==
    Test(<<BeginInput, Cls(Lower, 1, 1), Cls(AlNum, 0, Unbounded), EndInput>>, name)
\* /^[A-Z][A-Z0-9_]*$/
isUpperCase(name) ==
    Test(<<BeginInput, Cls(Upper, 1, 1), Cls(UpperDigitUnderscore, 0, Unbounded), EndInput>>, name)
\* /^_[a-z][a-zA-Z0-9]*$/
isUnderscoreMixedCase(name) ==
    Test(<<BeginInput, Lit(<<"_">>), Cls(Lower, 1, 1), Cls(AlNum, 0, Unbounded), EndInput>>, name)

\* ['ed', 'Updated', 'Created', 'Deleted', 'Added', 'Removed', 'Set', 'Changed']
pastTenseSuffixes == <<<<"e","d">>,
                       <<"U","p","d","a","t","e","d">>,
                       <<"C","r","e","a","t","e","d">>,
                       <<"D","e","l","e","t","e","d">>,
                       <<"A","d","d","e","d">>,
                       <<"R","e","m","o","v","e","d">>,
                       <<"S","e","t">>,
                       <<"C","h","a","n","g","e","d">>>>
isPastTense(eventName) ==
    \E i \in 1..Len(pastTenseSuffixes) : EndsWith(eventName, pastTenseSuffixes[i])


(***************************************************************************)
(* The < of two strings: by UTF-16 code unit, a proper prefix being less.  *)
(***************************************************************************)
\* the printable ASCII characters, code units 32 to 126, in order (code unit 96,
\* which a TLA+ string cannot hold, is spelled out)
Ascii ==
    <<" ","!","\"","#","$","%","&","'","(",")","*","+",",","-",".","/">> \o
    <<"0","1","2","3","4","5","6","7","8","9",":",";","<","=",">","?">> \o
    <<"@","A","B","C","D","E","F","G","H","I","J","K","L","M","N","O">> \o
    <<"P","Q","R","S","T","U","V","W","X","Y","Z","[","\\","]","^","_">> \o
    <<"backtick","a","b","c","d","e","f","g","h","i","j","k","l","m","n","o">> \o
    <<"p","q","r","s","t","u","v","w","x","y","z","{","|","}","~">>
FirstPrintable == 32
CharCode(c) ==
    CASE c = TAB -> 9
      [] c = NL -> 10
      [] c = CR -> 13
      [] OTHER -> FirstPrintable - 1 + CHOOSE i \in 1..Len(Ascii) : Ascii[i] = c

RECURSIVE StrLess(_, _)
StrLess(a, b) ==
    IF Len(b) = 0 THEN FALSE
    ELSE IF Len(a) = 0 THEN TRUE
    ELSE IF Head(a) = Head(b) THEN StrLess(Tail(a), Tail(b))
    ELSE CharCode(Head(a)) < CharCode(Head(b))

(***************************************************************************)
(* Inputs: lines of source text, and the files made of them                *)
(***************************************************************************)
\* the lines joined by newlines
RECURSIVE JoinLines(_)
JoinLines(ls) ==
    IF Len(ls) = 0 THEN <<>>
    ELSE IF Len(ls) = 1 THEN ls[1]
    ELSE ls[1] \o <<NL>> \o JoinLines(Tail(ls))

\* // SPDX-License-Identifier: MIT
LineSpdx ==
    <<"/","/"," ","S","P","D","X","-","L","i","c","e","n","s","e","-","I","d","e","n","t","i",
      "f","i","e","r",":"," ","M","I","T">>
\* pragma solidity ^0.8.0;
LinePragma ==
    <<"p","r","a","g","m","a"," ","s","o","l","i","d","i","t","y"," ","^","0",".","8",".","0",
      ";">>
\* contract Token {
LineContractGood == <<"c","o","n","t","r","a","c","t"," ","T","o","k","e","n"," ","{">>
\* contract token {
LineContractBad == <<"c","o","n","t","r","a","c","t"," ","t","o","k","e","n"," ","{">>
\* }
LineClose == <<"}">>
\* uint256 x; 
LineTrailing == <<"u","i","n","t","2","5","6"," ","x",";"," ">>
\* \tuint256 y;
LineTab == <<TAB,"u","i","n","t","2","5","6"," ","y",";">>
\* event Sent();
LineEventSent == <<"e","v","e","n","t"," ","S","e","n","t","(",")",";">>
\* import {B} from "./b.sol";
LineImportB ==
    <<"i","m","p","o","r","t"," ","{","B","}"," ","f","r","o","m"," ","\"",".","/","b",".",
      "s","o","l","\"",";">>
\* import "./a.sol";
LineImportA == <<"i","m","p","o","r","t"," ","\"",".","/","a",".","s","o","l","\"",";">>
\* function helper() private { } 
LineHelper ==
    <<"f","u","n","c","t","i","o","n"," ","h","e","l","p","e","r","(",")"," ","p","r","i","v",
      "a","t","e"," ","{"," ","}"," ">>

\* a file with no finding under the shipped configuration
TextClean == JoinLines(<<LineSpdx, LinePragma, LineContractGood, LineClose>>)
\* a layout warning only
TextWarn == JoinLines(<<LineSpdx, LineTrailing>>)
\* an info finding only
TextInfo == JoinLines(<<LineSpdx, LineEventSent>>)
\* errors of three passes
TextErr == JoinLines(<<LineContractBad, LineTab>>)
\* findings of all four passes
TextMixed == JoinLines(<<LinePragma, LineSpdx, LineImportB, LineImportA, LineHelper>>)
\* the empty file
TextEmpty == <<>>

\* A.sol
FileA == <<"A",".","s","o","l">>
\* B.sol
FileB == <<"B",".","s","o","l">>
\* notes.txt
FileNotes == <<"n","o","t","e","s",".","t","x","t">>
\* A
NameA == <<"A">>
\* B
NameB == <<"B">>

(***************************************************************************)
(* Function declarations: a name and what stands between the closing       *)
(* parenthesis and the opening brace                                       *)
(***************************************************************************)
\* DoIt
NameDoIt == <<"D","o","I","t">>
\* helper
NameHelper == <<"h","e","l","p","e","r">>
\* _helper
NameUnderHelper == <<"_","h","e","l","p","e","r">>
\*  public 
TailPublic == <<" ","p","u","b","l","i","c"," ">>
\*  private 
TailPrivate == <<" ","p","r","i","v","a","t","e"," ">>
\*  external view 
TailExternalView == <<" ","e","x","t","e","r","n","a","l"," ","v","i","e","w"," ">>
\*  internal 
TailInternal == <<" ","i","n","t","e","r","n","a","l"," ">>
\*  
TailNone == <<" ">>
\*  publicly 
TailPublicly == <<" ","p","u","b","l","i","c","l","y"," ">>
\*  view private public 
TailViewPrivatePublic ==
    <<" ","v","i","e","w"," ","p","r","i","v","a","t","e"," ","p","u","b","l","i","c"," ">>
\*  onlyOwner 
TailOnlyOwner == <<" ","o","n","l","y","O","w","n","e","r"," ">>
\*  onlyRole(internal) public 
TailModifierArgument ==
    <<" ","o","n","l","y","R","o","l","e","(","i","n","t","e","r","n","a","l",")"," ","p","u",
      "b","l","i","c"," ">>
\* \n    external\n
TailNewLine == <<NL," "," "," "," ","e","x","t","e","r","n","a","l",NL>>

\* a valid mixedCase name, a valid _underscoreMixedCase name, a name that is
\* neither, and a name that checkNaming skips
FunctionNames == {NameHelper, NameUnderHelper, NameDoIt, FallbackWord}
FunctionTails == {TailPublic, TailPrivate, TailExternalView, TailInternal, TailNone,
                  TailPublicly, TailViewPrivatePublic, TailOnlyOwner, TailModifierArgument,
                  TailNewLine}

\* function <name>()<tail>{ }
FunctionText(name, tail) ==
    FunctionWord \o <<" ">> \o name \o <<"(", ")">> \o tail \o <<"{", " ", "}">>

FunctionDecls == [name : FunctionNames, tail : FunctionTails]
FunctionTexts == {FunctionText(d.name, d.tail) : d \in FunctionDecls}

(***************************************************************************)
(* Texts for the structure pass: with and without the license marker       *)
(***************************************************************************)
\* // SPDX-License-Identifier MIT
LineSpdxNoColon ==
    <<"/","/"," ","S","P","D","X","-","L","i","c","e","n","s","e","-","I","d","e","n","t","i",
      "f","i","e","r"," ","M","I","T">>
\* // spdx-license-identifier: MIT
LineSpdxLower ==
    <<"/","/"," ","s","p","d","x","-","l","i","c","e","n","s","e","-","i","d","e","n","t","i",
      "f","i","e","r",":"," ","M","I","T">>
\* // SPDX-License-
LineSpdxHead == <<"/","/"," ","S","P","D","X","-","L","i","c","e","n","s","e","-">>
\* Identifier: MIT
LineSpdxRest == <<"I","d","e","n","t","i","f","i","e","r",":"," ","M","I","T">>
\* /* checked */ string s = "SPDX-License-Identifier: none";
LineSpdxInside ==
    <<"/","*"," ","c","h","e","c","k","e","d"," ","*","/"," ","s","t","r","i","n","g"," ","s",
      " ","="," ","\"","S","P","D","X","-","L","i","c","e","n","s","e","-","I","d","e","n",
      "t","i","f","i","e","r",":"," ","n","o","n","e","\"",";">>

\* the marker on the first line, on the second line after the pragma, inside a
\* later line, and on two lines
TextSpdxSecond == JoinLines(<<LinePragma, LineSpdx, LineContractGood, LineClose>>)
TextSpdxInside == JoinLines(<<LineContractGood, LineSpdxInside, LineClose>>)
TextSpdxTwice == JoinLines(<<LineSpdx, LineSpdx, LinePragma>>)
\* no marker: no comment at all, the words without the colon, in lower case, and
\* broken over two lines
TextNoSpdx == JoinLines(<<LinePragma, LineContractGood, LineClose>>)
TextSpdxNoColon == JoinLines(<<LineSpdxNoColon, LinePragma>>)
TextSpdxLower == JoinLines(<<LineSpdxLower, LinePragma>>)
TextSpdxBroken == JoinLines(<<LineSpdxHead, LineSpdxRest, LinePragma>>)

\*   pragma solidity ^0.8.0;
LinePragmaIndented ==
    <<" "," ","p","r","a","g","m","a"," ","s","o","l","i","d","i","t","y"," ","^","0",".","8",
      ".","0",";">>
\* // pragma solidity ^0.8.0;
LinePragmaComment ==
    <<"/","/"," ","p","r","a","g","m","a"," ","s","o","l","i","d","i","t","y"," ","^","0",".",
      "8",".","0",";">>
\* \t// SPDX-License-Identifier: MIT
LineSpdxIndented ==
    <<TAB,"/","/"," ","S","P","D","X","-","L","i","c","e","n","s","e","-","I","d","e","n","t",
      "i","f","i","e","r",":"," ","M","I","T">>
\* pragma solidity ^0.8.0; // SPDX-License-Identifier: MIT
LinePragmaSpdx ==
    <<"p","r","a","g","m","a"," ","s","o","l","i","d","i","t","y"," ","^","0",".","8",".","0",
      ";"," ","/","/"," ","S","P","D","X","-","L","i","c","e","n","s","e","-","I","d","e","n",
      "t","i","f","i","e","r",":"," ","M","I","T">>

\* the pragma and the license in either order, one of them alone, one of them
\* twice around the other, behind white space, the pragma inside a comment, both
\* on one line, and the license after an empty line
TextSpdxNoPragma == JoinLines(<<LineSpdx, LineContractGood, LineClose>>)
TextPragmaTwice == JoinLines(<<LinePragma, LineSpdx, LinePragma>>)
TextSpdxAround == JoinLines(<<LineSpdx, LinePragma, LineSpdx>>)
TextPragmaIndented == JoinLines(<<LineContractGood, LinePragmaIndented, LineSpdx>>)
TextPragmaComment == JoinLines(<<LinePragmaComment, LineSpdx, LinePragma>>)
TextSpdxIndented == JoinLines(<<LineSpdxIndented, LinePragma>>)
TextPragmaSpdx == JoinLines(<<LinePragmaSpdx, LineClose>>)
TextSpdxAfterEmpty == JoinLines(<<TextEmpty, LineSpdx, LinePragma>>)

StructureTexts == {TextClean, TextSpdxSecond, TextSpdxInside, TextSpdxTwice, TextNoSpdx,
                   TextSpdxNoColon, TextSpdxLower, TextSpdxBroken, TextEmpty,
                   TextSpdxNoPragma, TextPragmaTwice, TextSpdxAround, TextPragmaIndented,
                   TextPragmaComment, TextSpdxIndented, TextPragmaSpdx, TextSpdxAfterEmpty}
(***************************************************************************)
(* Texts for the import pass: files of one, two and three lines            *)
(***************************************************************************)
\* import {A} from "./a.sol";
LineImportNamedA ==
    <<"i","m","p","o","r","t"," ","{","A","}"," ","f","r","o","m"," ","\"",".","/","a",".",
      "s","o","l","\"",";">>
\* import {A, B} from "./ab.sol";
LineImportTwoNames ==
    <<"i","m","p","o","r","t"," ","{","A",","," ","B","}"," ","f","r","o","m"," ","\"",".",
      "/","a","b",".","s","o","l","\"",";">>
\* import { } from "./c.sol"
LineImportBlankBraces ==
    <<"i","m","p","o","r","t"," ","{"," ","}"," ","f","r","o","m"," ","\"",".","/","c",".",
      "s","o","l","\"">>
\* import {} from "./a.sol";
LineImportEmptyBraces ==
    <<"i","m","p","o","r","t"," ","{","}"," ","f","r","o","m"," ","\"",".","/","a",".","s",
      "o","l","\"",";">>
\* import * as C from './c.sol';
LineImportStar ==
    <<"i","m","p","o","r","t"," ","*"," ","a","s"," ","C"," ","f","r","o","m"," ","'",".","/",
      "c",".","s","o","l","'",";">>
\* import"./a.sol";
LineImportNoSpace == <<"i","m","p","o","r","t","\"",".","/","a",".","s","o","l","\"",";">>
\* import\t{A} from "./a.sol";
LineImportTab ==
    <<"i","m","p","o","r","t",TAB,"{","A","}"," ","f","r","o","m"," ","\"",".","/","a",".",
      "s","o","l","\"",";">>
\*   import {A} from "./a.sol"; 
LineImportIndented ==
    <<" "," ","i","m","p","o","r","t"," ","{","A","}"," ","f","r","o","m"," ","\"",".","/",
      "a",".","s","o","l","\"",";"," ">>
\* import {Z} from "./Z.sol";
LineImportUpperPath ==
    <<"i","m","p","o","r","t"," ","{","Z","}"," ","f","r","o","m"," ","\"",".","/","Z",".",
      "s","o","l","\"",";">>
\* import {A} from "./a.sol"; // a
LineImportComment ==
    <<"i","m","p","o","r","t"," ","{","A","}"," ","f","r","o","m"," ","\"",".","/","a",".",
      "s","o","l","\"",";"," ","/","/"," ","a">>
\* import {A} from "./a";
LineImportShortPath ==
    <<"i","m","p","o","r","t"," ","{","A","}"," ","f","r","o","m"," ","\"",".","/","a","\"",
      ";">>

\* import lines in the named form and not, with and without a path, and a line
\* that is no import
ImportLines == {LineImportNamedA, LineImportB, LineImportA, LineImportTwoNames,
                LineImportBlankBraces, LineImportEmptyBraces, LineImportStar,
                LineImportNoSpace, LineImportTab, LineImportIndented, LineImportUpperPath,
                LineImportComment, LineImportShortPath, LineContractGood}
\* the lines of the files of three lines
ImportRunLines == {LineImportNamedA, LineImportB, LineImportA, LineImportUpperPath}

ImportTexts ==
    {JoinLines(<<a>>) : a \in ImportLines}
    \cup {JoinLines(<<a, b>>) : a \in ImportLines, b \in ImportLines}
    \cup {JoinLines(<<a, b, c>>) : a \in ImportRunLines, b \in ImportRunLines,
                                   c \in ImportRunLines}

(***************************************************************************)
(* Texts for the naming pass: contract, constant and event declarations,   *)
(* and functions with arguments                                            *)
(***************************************************************************)
\* MyToken
NameMyToken == <<"M","y","T","o","k","e","n">>
\* myToken
NameLowerToken == <<"m","y","T","o","k","e","n">>
\* My_Token
NameMyUnderToken == <<"M","y","_","T","o","k","e","n">>
\* TOKEN
NameTOKEN == <<"T","O","K","E","N">>
\* 
LeadNone == <<>>
\*   
LeadIndent == <<" "," ">>
\* abstract 
LeadAbstract == <<"a","b","s","t","r","a","c","t"," ">>
\* \n
LeadEmptyLine == <<NL>>

\* names in CapWords and not; a keyword that starts the text, stands behind
\* white space, behind another word, and behind an empty line
ContractNameChoices == {NameMyToken, NameLowerToken, NameMyUnderToken, NameTOKEN}
ContractLeads == {LeadNone, LeadIndent, LeadAbstract, LeadEmptyLine}
ContractDecls == [lead : ContractLeads, name : ContractNameChoices]
\* <lead>contract <name> { }
ContractText(d) == d.lead \o ContractWord \o <<" ">> \o d.name \o <<" ", "{", " ", "}">>
\* two declarations, on two lines
ContractPairs == [first : {NameMyToken, NameLowerToken}, second : {NameMyToken, NameLowerToken}]
ContractPairText(p) ==
    JoinLines(<<ContractText([lead |-> LeadNone, name |-> p.first]),
                ContractText([lead |-> LeadNone, name |-> p.second])>>)
ContractTexts == {ContractText(d) : d \in ContractDecls}
                 \cup {ContractPairText(p) : p \in ContractPairs}

\* uint256
TypeUint == <<"u","i","n","t","2","5","6">>
\* IERC20
TypeUpper == <<"I","E","R","C","2","0">>
\* MAX_SUPPLY
NameMaxSupplyUpper == <<"M","A","X","_","S","U","P","P","L","Y">>
\* maxSupply
NameMaxSupplyMixed == <<"m","a","x","S","u","p","p","l","y">>
\*  public 
VisPublic == <<" ","p","u","b","l","i","c"," ">>
\*  private 
VisPrivate == <<" ","p","r","i","v","a","t","e"," ">>
\*  
VisNone == <<" ">>
\*   
VisNoneWide == <<" "," ">>

\* a type in lower case and one in upper case, with a visibility and without,
\* a name in UPPER_CASE and one that is not
ConstantDecls == [type : {TypeUint, TypeUpper},
                  vis : {VisPublic, VisPrivate, VisNone, VisNoneWide},
                  name : {NameMaxSupplyUpper, NameMaxSupplyMixed}]
\* <type><vis>constant <name> = 1000;
ConstantText(d) ==
    d.type \o d.vis \o ConstantWord \o <<" ">> \o d.name \o <<" ", "=", " ", "1", "0", "0", "0", ";">>
ConstantTexts == {ConstantText(d) : d \in ConstantDecls}

\* Transfer
NameTransfer == <<"T","r","a","n","s","f","e","r">>
\* Transferred
NameTransferred == <<"T","r","a","n","s","f","e","r","r","e","d">>
\* transfer
NameLowerTransfer == <<"t","r","a","n","s","f","e","r">>
\* transferred
NameLowerTransferred == <<"t","r","a","n","s","f","e","r","r","e","d">>
\* OwnerSet
NameOwnerSet == <<"O","w","n","e","r","S","e","t">>
\* Sent
NameSent == <<"S","e","n","t">>
\* ed
NameEd == <<"e","d">>
\* OwnerUpdate
NameOwnerUpdate == <<"O","w","n","e","r","U","p","d","a","t","e">>

EventNameChoices == {NameTransfer, NameTransferred, NameLowerTransfer, NameLowerTransferred,
                     NameOwnerSet, NameSent, NameEd, NameOwnerUpdate}
\* event <name>();
EventText(name) == EventWord \o <<" ">> \o name \o <<"(", ")", ";">>
\* two declarations, on two lines
EventPairText == JoinLines(<<EventText(NameLowerTransfer), EventText(NameSent)>>)
EventTexts == {EventText(n) : n \in EventNameChoices} \cup {EventPairText}

\* transferFrom
NameTransferFrom == <<"t","r","a","n","s","f","e","r","F","r","o","m">>
\* address to, uint256 amount
ArgsBad ==
    <<"a","d","d","r","e","s","s"," ","t","o",","," ","u","i","n","t","2","5","6"," ","a","m",
      "o","u","n","t">>
\* address _to, uint256 _amount
ArgsGood ==
    <<"a","d","d","r","e","s","s"," ","_","t","o",","," ","u","i","n","t","2","5","6"," ","_",
      "a","m","o","u","n","t">>
\* address _to, uint256 amount
ArgsOneBad ==
    <<"a","d","d","r","e","s","s"," ","_","t","o",","," ","u","i","n","t","2","5","6"," ","a",
      "m","o","u","n","t">>
\* uint256[] memory data
ArgsArray ==
    <<"u","i","n","t","2","5","6","[","]"," ","m","e","m","o","r","y"," ","d","a","t","a">>
\* bytes memory
ArgsUnnamedMemory == <<"b","y","t","e","s"," ","m","e","m","o","r","y">>
\* address[] calldata, uint256 _x
ArgsUnnamedCalldata ==
    <<"a","d","d","r","e","s","s","[","]"," ","c","a","l","l","d","a","t","a",","," ","u","i",
      "n","t","2","5","6"," ","_","x">>
\* Data storage, uint256 x
ArgsUnnamedStorage ==
    <<"D","a","t","a"," ","s","t","o","r","a","g","e",","," ","u","i","n","t","2","5","6"," ",
      "x">>
\* uint256
ArgsTypeOnly == <<"u","i","n","t","2","5","6">>
\* 
ArgsNone == <<>>
\* address to,\n    uint256 amount
ArgsTwoLines ==
    <<"a","d","d","r","e","s","s"," ","t","o",",",NL," "," "," "," ","u","i","n","t","2","5",
      "6"," ","a","m","o","u","n","t">>
\* uint256 amount, 
ArgsTrailingComma == <<"u","i","n","t","2","5","6"," ","a","m","o","u","n","t",","," ">>
\* uint256 _Amount
ArgsUnderUpper == <<"u","i","n","t","2","5","6"," ","_","A","m","o","u","n","t">>

ArgumentLists == {ArgsBad, ArgsGood, ArgsOneBad, ArgsArray, ArgsUnnamedMemory,
                  ArgsUnnamedCalldata, ArgsUnnamedStorage, ArgsTypeOnly, ArgsNone,
                  ArgsTwoLines, ArgsTrailingComma, ArgsUnderUpper}
\* a function on the first line and on the second, with a name the function
\* loop checks and one it skips
ArgumentDecls == [lead : {LeadNone, LeadEmptyLine}, name : {NameTransferFrom, FallbackWord},
                  args : ArgumentLists]
\* <lead>function <name>(<args>) public { }
ArgumentText(d) ==
    d.lead \o FunctionWord \o <<" ">> \o d.name \o <<"(">> \o d.args \o <<")">>
    \o TailPublic \o <<"{", " ", "}">>
ArgumentTexts == {ArgumentText(d) : d \in ArgumentDecls}

NamingTexts == ContractTexts \cup ConstantTexts \cup EventTexts \cup ArgumentTexts

(***************************************************************************)
(* Texts for the layout pass: lines of given lengths                       *)
(***************************************************************************)
\* a line of n slashes
Slashes(n) == [i \in 1..n |-> "/"]
\* the lengths of lines: around the two maxima, the 130 of the README, none
LineLengths == {0, 9, 10, 11, 119, 120, 121, 130}
\* the maxima: none, a short one, and the shipped one
MaxLineLengths == {0, 10, 120}
\* files of one line, and of two lines
LengthTexts ==
    {Slashes(n) : n \in LineLengths}
    \cup {JoinLines(<<Slashes(n), Slashes(m)>>) : n \in {10, 11}, m \in {9, 11, 121}}
    \cup {Slashes(9) \o <<TAB>>, Slashes(9) \o <<CR>>, Slashes(10) \o <<CR>>}


(***************************************************************************)
(* Texts for the layout pass: lines with tabs and white space at their end *)
(***************************************************************************)
\* 'uint256 a;\tuint256 b;': a tab in the middle
LineTabMiddle == <<"u","i","n","t","2","5","6"," ","a",";",TAB,"u","i","n","t","2","5","6"," ","b",";">>
\* 'x;\t': a tab at the end
LineTabEnd == <<"x",";",TAB>>
\* 'x;\r': the line before the line end of a file with CRLF line ends
LineCarriageReturn == <<"x",";",CR>>
\* '  ': spaces only
LineSpaces == <<SP, SP>>
\* 'x;': nothing to report
LinePlain == <<"x",";">>
\* 'x; y': white space inside only
LineSpaceInside == <<"x",";",SP,"y">>
\* a line of 11 characters with a tab in it and a space at its end
LineLongTabTrailing == <<"/","/",TAB,"/","/","/","/","/","/","/",SP>>
\* a line of 11 characters and nothing else to report
LineLongPlain == Slashes(11)

LayoutLines == {LineTab, LineTabMiddle, LineTabEnd, LineTrailing, LineCarriageReturn,
                LineSpaces, LinePlain, LineSpaceInside, LineLongTabTrailing, LineLongPlain,
                TextEmpty}
\* files of one line, and of two lines
LayoutTexts ==
    LayoutLines \cup {JoinLines(<<a, b>>) : a \in LayoutLines, b \in LayoutLines}
(***************************************************************************)
(* What the passes read of a file.  Each pass matches the file's text and  *)
(* lines against its expressions and tests the outcome against the rules;  *)
(* the matching does not depend on the rules, and is done here, apart from *)
(* the tests against the rules.                                            *)
(***************************************************************************)
IsPragmaLine(line) == StartsWith(Trim(line), PragmaSolidity)
HasSpdxMarker(line) == Includes(line, SpdxMarker)

\* a variant of hasSpdx that looks at the first line only
hasSpdxOnFirstLine(content) == Includes(Split(content, NL)[1], SpdxMarker)

\* content.match(/SPDX-License-Identifier:/)
hasSpdx(content) == Test(<<Lit(SpdxMarker)>>, content)

\* checkFileStructure's reads
structureScan(content, lines) ==
    [hasSpdx |-> hasSpdx(content),
     \* lines[0].trim().includes('SPDX-License-Identifier:')
     firstLineHasSpdx |-> Includes(Trim(lines[1]), SpdxMarker),
     \* the two findIndex calls, with indexes from 1 and 0 for none
     pragmaLineIndex |-> FindIndex([i \in 1..Len(lines) |-> IsPragmaLine(lines[i])]),
     spdxLineIndex |-> FindIndex([i \in 1..Len(lines) |-> HasSpdxMarker(lines[i])])]

Quotes == {"\"", "'"}

\* a variant of namedImportPattern whose braces hold one identifier
namedImportPatternOneName ==
    <<BeginInput, Lit(ImportWord), Cls(WS, 1, Unbounded), Lit(<<"{">>),
      Cls(IdStart, 1, 1), Cls(IdChar, 0, Unbounded), Lit(<<"}">>), Cls(WS, 1, Unbounded),
      Lit(FromWord), Cls(WS, 1, Unbounded), Cls(Quotes, 1, 1), NCls(Quotes, 1, Unbounded),
      Cls(Quotes, 1, 1), Cls({";"}, 0, 1), EndInput>>

\* /^import\s+\{[^}]+\}\s+from\s+["'][^"']+["'];?$/
namedImportPattern ==
    <<BeginInput, Lit(ImportWord), Cls(WS, 1, Unbounded), Lit(<<"{">>),
      NCls({"}"}, 1, Unbounded), Lit(<<"}">>), Cls(WS, 1, Unbounded), Lit(FromWord),
      Cls(WS, 1, Unbounded), Cls(Quotes, 1, 1), NCls(Quotes, 1, Unbounded),
      Cls(Quotes, 1, 1), Cls({";"}, 0, 1), EndInput>>

\* /from\s+["']([^"']+)["']/
importPathPattern ==
    <<Lit(FromWord), Cls(WS, 1, Unbounded), Cls(Quotes, 1, 1), Open(1),
      NCls(Quotes, 1, Unbounded), Close(1), Cls(Quotes, 1, 1)>>

\* a variant of extractImportPath that gives the empty string for no match
extractImportPathOrEmpty(importLine) ==
    LET match == ExecFrom(importPathPattern, importLine, 1)
    IN [found |-> TRUE, path |-> IF match.ok THEN Group(importLine, match, 1) ELSE <<>>]

\* extractImportPath: [found, path]; found is FALSE for the code's null
extractImportPath(importLine) ==
    LET match == ExecFrom(importPathPattern, importLine, 1)
    IN IF match.ok THEN [found |-> TRUE, path |-> Group(importLine, match, 1)]
       ELSE [found |-> FALSE, path |-> <<>>]

\* checkImports's first forEach: the trimmed import lines with their line numbers
RECURSIVE collectImports(_, _)
collectImports(lines, index) ==
    IF index > Len(lines) THEN <<>>
    ELSE LET trimmed == Trim(lines[index])
         IN (IF StartsWith(trimmed, ImportKw)
             THEN <<[line |-> trimmed, lineNumber |-> index]>> ELSE <<>>)
            \o collectImports(lines, index + 1)

\* checkImports's reads: for each import, whether it has the named form, and
\* its path
importScan(lines) ==
    LET imports == collectImports(lines, 1)
    IN [index \in 1..Len(imports) |->
           [line |-> imports[index].line,
            lineNumber |-> imports[index].lineNumber,
            named |-> Test(namedImportPattern, imports[index].line),
            from |-> extractImportPath(imports[index].line)]]

\* [A-Za-z_][A-Za-z0-9_]* as capture group g
Identifier(g) == <<Open(g), Cls(IdStart, 1, 1), Cls(IdChar, 0, Unbounded), Close(g)>>

\* /^(\s*)contract\s+([A-Za-z_][A-Za-z0-9_]*)/gm
contractPattern ==
    <<BeginLine, Open(1), Cls(WS, 0, Unbounded), Close(1), Lit(ContractWord),
      Cls(WS, 1, Unbounded)>> \o Identifier(2)

\* /function\s+([A-Za-z_][A-Za-z0-9_]*)\s*\(\s*([^)]*)\s*\)\s*([^{]*?)\s*{/gs
functionPattern ==
    <<Lit(FunctionWord), Cls(WS, 1, Unbounded)>> \o Identifier(1) \o
    <<Cls(WS, 0, Unbounded), Lit(<<"(">>), Cls(WS, 0, Unbounded),
      Open(2), NCls({")"}, 0, Unbounded), Close(2), Cls(WS, 0, Unbounded), Lit(<<")">>),
      Cls(WS, 0, Unbounded), Open(3), NClsLazy({"{"}, 0, Unbounded), Close(3),
      Cls(WS, 0, Unbounded), Lit(<<"{">>)>>

\* /\b(public|external|internal|private)\b/
visibilityPattern ==
    <<WordBoundary, Open(1),
      Alt(<< <<Lit(PublicWord)>>, <<Lit(ExternalWord)>>, <<Lit(InternalWord)>>,
             <<Lit(PrivateWord)>> >>),
      Close(1), WordBoundary>>

\* /\s+([A-Za-z_][A-Za-z0-9_]*)(?:\s*$|\s*\[)/
argNamePattern ==
    <<Cls(WS, 1, Unbounded)>> \o Identifier(1) \o
    <<Alt(<< <<Cls(WS, 0, Unbounded), EndInput>>,
             <<Cls(WS, 0, Unbounded), Lit(<<"[">>)>> >>)>>

\* /event\s+([A-Za-z_][A-Za-z0-9_]*)/g
eventPattern == <<Lit(EventWord), Cls(WS, 1, Unbounded)>> \o Identifier(1)

\* /([A-Za-z_][A-Za-z0-9_]*)\s+(public|private|internal)?\s+constant/g
constantPattern ==
    Identifier(1) \o
    <<Cls(WS, 1, Unbounded),
      Alt(<< <<Open(2), Alt(<< <<Lit(PublicWord)>>, <<Lit(PrivateWord)>>,
                               <<Lit(InternalWord)>> >>), Close(2)>>,
             <<>> >>),
      Cls(WS, 1, Unbounded), Lit(ConstantWord)>>

\* the word of a visibility keyword's characters
VisibilityName(w) ==
    CASE w = PublicWord -> "public"
      [] w = ExternalWord -> "external"
      [] w = InternalWord -> "internal"
      [] w = PrivateWord -> "private"

\* a variant of visibilityOf whose default is 'public'
visibilityOfDefaultPublic(modifiersAndVisibility) ==
    LET visibilityMatch == ExecFrom(visibilityPattern, modifiersAndVisibility, 1)
    IN IF visibilityMatch.ok
       THEN VisibilityName(Group(modifiersAndVisibility, visibilityMatch, 1))
       ELSE "public"

\* const visibility = visibilityMatch ? visibilityMatch[1] : 'internal'
visibilityOf(modifiersAndVisibility) ==
    LET visibilityMatch == ExecFrom(visibilityPattern, modifiersAndVisibility, 1)
    IN IF visibilityMatch.ok
       THEN VisibilityName(Group(modifiersAndVisibility, visibilityMatch, 1))
       ELSE "internal"

\* the contract loop's reads: for each match its name and line
contractScan(content) ==
    LET matches == ExecAll(contractPattern, content, 1)
    IN [i \in 1..Len(matches) |->
           [contractName |-> Group(content, matches[i], 2),
            lineNumber |-> LineOfOffset(content, matches[i].start)]]

\* the argument loop's reads: functionArgs.split(',').map(arg => arg.trim()),
\* and for each fragment the match of the name pattern
argScan(functionArgs) ==
    LET parts == Split(functionArgs, ",")
        one(arg) ==
            LET argNameMatch == ExecFrom(argNamePattern, arg, 1)
            IN [arg |-> arg,
                matched |-> argNameMatch.ok,
                argName |-> IF argNameMatch.ok THEN Group(arg, argNameMatch, 1) ELSE <<>>]
    IN [i \in 1..Len(parts) |-> one(Trim(parts[i]))]

\* the function loop's reads: for each match its name, arguments, modifiers,
\* visibility and line
functionScan(content) ==
    LET matches == ExecAll(functionPattern, content, 1)
    IN [i \in 1..Len(matches) |->
           [functionName |-> Group(content, matches[i], 1),
            functionArgs |-> Group(content, matches[i], 2),
            args |-> argScan(Group(content, matches[i], 2)),
            modifiersAndVisibility |-> Group(content, matches[i], 3),
            visibility |-> visibilityOf(Group(content, matches[i], 3)),
            lineNumber |-> LineOfOffset(content, matches[i].start)]]

\* the event loop's reads
eventScan(content) ==
    LET matches == ExecAll(eventPattern, content, 1)
    IN [i \in 1..Len(matches) |->
           [eventName |-> Group(content, matches[i], 1),
            lineNumber |-> LineOfOffset(content, matches[i].start)]]

\* the constant loop's reads
constantScan(content) ==
    LET matches == ExecAll(constantPattern, content, 1)
    IN [i \in 1..Len(matches) |->
           [constantName |-> Group(content, matches[i], 1),
            lineNumber |-> LineOfOffset(content, matches[i].start)]]

\* /\s+$/
trailingWhitespacePattern == <<Cls(WS, 1, Unbounded), EndInput>>

\* checkLayout's reads of each line
layoutScan(lines) ==
    [index \in 1..Len(lines) |->
        [length |-> Len(lines[index]),
         hasTab |-> Includes(lines[index], <<TAB>>),
         trailing |-> Test(trailingWhitespacePattern, lines[index])]]

\* checkFile's content.split('\n') and the reads of the four passes
Scan(content) ==
    LET lines == Split(content, NL)
    IN [lineCount |-> Len(lines),
        structure |-> structureScan(content, lines),
        imports   |-> importScan(lines),
        contracts |-> contractScan(content),
        functions |-> functionScan(content),
        events    |-> eventScan(content),
        constants |-> constantScan(content),
        layout    |-> layoutScan(lines)]


(***************************************************************************)
(* Texts that are no well-formed source: the empty text, braces and        *)
(* parentheses that are not closed, signatures over several lines, words   *)
(* without a declaration, CRLF line ends                                   *)
(***************************************************************************)
\* \n\n
TextOnlyNewlines == <<NL,NL>>
\* contract token {\nfunction f(uint256 a) public { 
TextOpenBrace ==
    <<"c","o","n","t","r","a","c","t"," ","t","o","k","e","n"," ","{",NL,"f","u","n","c","t",
      "i","o","n"," ","f","(","u","i","n","t","2","5","6"," ","a",")"," ","p","u","b","l","i",
      "c"," ","{"," ">>
\* }\n}
TextCloseBrace == <<"}",NL,"}">>
\* function f(uint256 a public {
TextOpenParen ==
    <<"f","u","n","c","t","i","o","n"," ","f","(","u","i","n","t","2","5","6"," ","a"," ","p",
      "u","b","l","i","c"," ","{">>
\* function f(uint256 a public {\nevent x();\nfunction g() private {
TextOpenParenLater ==
    <<"f","u","n","c","t","i","o","n"," ","f","(","u","i","n","t","2","5","6"," ","a"," ","p",
      "u","b","l","i","c"," ","{",NL,"e","v","e","n","t"," ","x","(",")",";",NL,"f","u","n",
      "c","t","i","o","n"," ","g","(",")"," ","p","r","i","v","a","t","e"," ","{">>
\* \nfunction\n  DoIt(\n    uint256 amount,\n    address to\n  )\n  external\n{
TextMultiLine ==
    <<NL,"f","u","n","c","t","i","o","n",NL," "," ","D","o","I","t","(",NL," "," "," "," ",
      "u","i","n","t","2","5","6"," ","a","m","o","u","n","t",",",NL," "," "," "," ","a","d",
      "d","r","e","s","s"," ","t","o",NL," "," ",")",NL," "," ","e","x","t","e","r","n","a",
      "l",NL,"{">>
\* contract\nfunction\nevent\nconstant\nimport 
TextKeywordsOnly ==
    <<"c","o","n","t","r","a","c","t",NL,"f","u","n","c","t","i","o","n",NL,"e","v","e","n",
      "t",NL,"c","o","n","s","t","a","n","t",NL,"i","m","p","o","r","t"," ">>
\* contract token {\r\n}\r
TextCarriageReturns ==
    <<"c","o","n","t","r","a","c","t"," ","t","o","k","e","n"," ","{",CR,NL,"}",CR>>
\* \n\n  contract token {\n\n  event sent();\n\n  uint256  constant x = 1;
TextLateDeclarations ==
    <<NL,NL," "," ","c","o","n","t","r","a","c","t"," ","t","o","k","e","n"," ","{",NL,NL," ",
      " ","e","v","e","n","t"," ","s","e","n","t","(",")",";",NL,NL," "," ","u","i","n","t",
      "2","5","6"," "," ","c","o","n","s","t","a","n","t"," ","x"," ","="," ","1",";">>

OddTexts == {TextEmpty, TextOnlyNewlines, TextOpenBrace, TextCloseBrace, TextOpenParen,
             TextOpenParenLater, TextMultiLine, TextKeywordsOnly, TextCarriageReturns,
             TextLateDeclarations, TextMixed, TextErr}
(***************************************************************************)
(* The state: the configuration module (build-config.js), the files on     *)
(* disk, and the checker's module-level variables.                         *)
(***************************************************************************)
VARIABLES
    RULES,           \* config.RULES
    RULE_SEVERITY,   \* config.RULE_SEVERITY
    CONTRACT_NAMES,  \* config.CONTRACT_NAMES
    srcDir,          \* the source directory: whether it exists and its .sol files
    scans,           \* what the passes' expressions match in each content on disk:
                     \* Scan of the content, which no step changes
    stats,           \* let stats
    issues,          \* let issues
    pc,              \* where main is: "idle", "loop", "returned", "exited"
    contracts,       \* main's contracts, the result of findContracts
    next,            \* the index in contracts of the next file of main's forEach
    exitCode,        \* the process's exit status, -1 while it has none
    report,          \* what the last printResults printed: the groups, in order
    runs,            \* the calls of main so far
    apiCalls,        \* the calls of checkFile by the requiring program so far
    origin,          \* history: for each element of issues, the number of the
                     \* checkFile call that added it
    yielded          \* history: the issues at the end of each completed main

vars == <<RULES, RULE_SEVERITY, CONTRACT_NAMES, srcDir, scans, stats, issues, pc,
          contracts, next, exitCode, report, runs, apiCalls, origin, yielded>>

(***************************************************************************)
(* addIssue and the severity of a rule                                     *)
(***************************************************************************)
\* the rule identifiers whose severity the code reads from config.RULE_SEVERITY
SeverityKeys == {"structure.spdxLicense", "naming.contracts", "naming.functions",
                 "layout.maxLineLength"}

\* config.RULE_SEVERITY[rule] || dflt  (an absent entry is "")
Severity(rule, dflt) == IF RULE_SEVERITY[rule] # "" THEN RULE_SEVERITY[rule] ELSE dflt

\* a message: the template, and the values interpolated into it
Msg(fmt, name, word, n1, n2) == [fmt |-> fmt, name |-> name, word |-> word, n1 |-> n1, n2 |-> n2]
Text(fmt) == Msg(fmt, <<>>, "", 0, 0)

\* the arguments of one addIssue call
Issue(file, line, rule, message, severity) ==
    [file |-> file, line |-> line, rule |-> rule, message |-> message, severity |-> severity]

\* an exception thrown by a pass, at its place among the addIssue calls of the
\* pass: the statements after it do not run, and main's catch ends the process
Thrown == Issue(<<>>, 0, "TypeError", Text(""), "")
Throws(calls) == \E i \in 1..Len(calls) : calls[i] = Thrown
\* the calls made before the exception, all of them when there is none
untilThrown(calls) ==
    IF Throws(calls)
    THEN SubSeq(calls, 1, FindIndex([i \in 1..Len(calls) |-> calls[i] = Thrown]) - 1)
    ELSE calls

\* a variant of addIssue that counts a warning as an error too
addIssueWarningsAsErrors(acc, i) ==
    [issues |-> Append(acc.issues, i),
     stats  |-> IF i.severity \in {"error", "warning"}
                THEN [acc.stats EXCEPT !.errors = @ + 1]
                ELSE IF i.severity = "info"
                THEN [acc.stats EXCEPT !.info = @ + 1]
                ELSE acc.stats]

\* a variant of addIssue that puts the finding at the front of issues
addIssueAtFront(acc, i) ==
    [issues |-> <<i>> \o acc.issues,
     stats  |-> IF i.severity = "error"
                THEN [acc.stats EXCEPT !.errors = @ + 1]
                ELSE IF i.severity = "warning"
                THEN [acc.stats EXCEPT !.warnings = @ + 1]
                ELSE IF i.severity = "info"
                THEN [acc.stats EXCEPT !.info = @ + 1]
                ELSE acc.stats]

\* addIssue(file, line, rule, message, severity) on the accumulators
\* acc = [issues, stats]
addIssue(acc, i) ==
    [issues |-> Append(acc.issues, i),
     stats  |-> IF i.severity = "error"
                THEN [acc.stats EXCEPT !.errors = @ + 1]
                ELSE IF i.severity = "warning"
                THEN [acc.stats EXCEPT !.warnings = @ + 1]
                ELSE IF i.severity = "info"
                THEN [acc.stats EXCEPT !.info = @ + 1]
                ELSE acc.stats]

\* the addIssue calls of a pass, made in order
RECURSIVE addIssues(_, _)
addIssues(acc, calls) ==
    IF Len(calls) = 0 THEN acc ELSE addIssues(addIssue(acc, Head(calls)), Tail(calls))

\* the concatenation of a sequence of sequences
RECURSIVE Flatten(_)
Flatten(ss) == IF Len(ss) = 0 THEN <<>> ELSE Head(ss) \o Flatten(Tail(ss))

(***************************************************************************)
(* checkFileStructure: the addIssue calls it makes, in order               *)
(***************************************************************************)
\* a variant of checkSpdx whose placement check does not depend on the
\* presence rule
checkSpdxPlacementAlone(path, scan) ==
    LET rules == RULES.structure
    IN IF rules.spdxLicense /\ ~scan.structure.hasSpdx
       THEN <<Issue(path, 1, "structure.spdxLicense", Text("Missing SPDX license identifier"),
                    Severity("structure.spdxLicense", "error"))>>
       ELSE IF rules.spdxAtTop /\ scan.lineCount > 0 /\ ~scan.structure.firstLineHasSpdx
       THEN <<Issue(path, 1, "structure.spdxAtTop",
                    Text("SPDX license should be on first line"), "warning")>>
       ELSE <<>>

\* the SPDX license check
checkSpdx(path, scan) ==
    LET rules == RULES.structure
    IN IF ~rules.spdxLicense THEN <<>>
       ELSE IF ~scan.structure.hasSpdx
       THEN <<Issue(path, 1, "structure.spdxLicense", Text("Missing SPDX license identifier"),
                    Severity("structure.spdxLicense", "error"))>>
       ELSE IF rules.spdxAtTop /\ scan.lineCount > 0 /\ ~scan.structure.firstLineHasSpdx
       THEN <<Issue(path, 1, "structure.spdxAtTop",
                    Text("SPDX license should be on first line"), "warning")>>
       ELSE <<>>

\* a variant of checkPragma that runs only when the presence rule is enabled
checkPragmaUnderPresenceRule(path, scan) ==
    LET rules == RULES.structure
        pragmaLineIndex == scan.structure.pragmaLineIndex
        spdxLineIndex   == scan.structure.spdxLineIndex
    IN IF rules.spdxLicense /\ rules.pragmaAfterLicense /\ pragmaLineIndex # 0
          /\ spdxLineIndex # 0 /\ pragmaLineIndex < spdxLineIndex
       THEN <<Issue(path, pragmaLineIndex, "structure.pragmaAfterLicense",
                    Text("Pragma should come after SPDX license"), "warning")>>
       ELSE <<>>

\* the pragma placement check
checkPragma(path, scan) ==
    LET rules == RULES.structure
        pragmaLineIndex == scan.structure.pragmaLineIndex
        spdxLineIndex   == scan.structure.spdxLineIndex
    IN IF rules.pragmaAfterLicense /\ pragmaLineIndex # 0 /\ spdxLineIndex # 0
          /\ pragmaLineIndex < spdxLineIndex
       THEN <<Issue(path, pragmaLineIndex, "structure.pragmaAfterLicense",
                    Text("Pragma should come after SPDX license"), "warning")>>
       ELSE <<>>

checkFileStructure(path, scan) ==
    IF ~RULES.structure.on THEN <<>>
    ELSE checkSpdx(path, scan) \o checkPragma(path, scan)

(***************************************************************************)
(* checkImports                                                            *)
(***************************************************************************)
\* a variant of checkImport that compares each import with the first one
checkImportAgainstFirst(path, imports, index) ==
    LET rules == RULES.imports
        lineNumber == imports[index].lineNumber
        named == IF rules.namedOnly /\ ~imports[index].named
                 THEN <<Issue(path, lineNumber, "imports.namedOnly",
                              Text("Use named imports: import {Contract} from \"./file.sol\""),
                              "warning")>>
                 ELSE <<>>
        alpha == IF rules.alphabetical /\ index > 1
                    /\ imports[index].from.found /\ imports[1].from.found
                    /\ StrLess(imports[index].from.path, imports[1].from.path)
                 THEN <<Issue(path, lineNumber, "imports.alphabetical",
                              Text("Imports should be alphabetically ordered"), "warning")>>
                 ELSE <<>>
    IN named \o alpha

\* a variant of checkImport that compares each import with the nearest import
\* before it that has a path
checkImportSkippingPathless(path, imports, index) ==
    LET rules == RULES.imports
        lineNumber == imports[index].lineNumber
        named == IF rules.namedOnly /\ ~imports[index].named
                 THEN <<Issue(path, lineNumber, "imports.namedOnly",
                              Text("Use named imports: import {Contract} from \"./file.sol\""),
                              "warning")>>
                 ELSE <<>>
        earlier == {j \in 1..(index - 1) : imports[j].from.found}
        alpha == IF rules.alphabetical /\ index > 1 /\ earlier # {}
                    /\ imports[index].from.found
                    /\ StrLess(imports[index].from.path, imports[Max(earlier)].from.path)
                 THEN <<Issue(path, lineNumber, "imports.alphabetical",
                              Text("Imports should be alphabetically ordered"), "warning")>>
                 ELSE <<>>
    IN named \o alpha

\* the body of the second forEach for the import at index (from 1)
checkImport(path, imports, index) ==
    LET rules == RULES.imports
        lineNumber == imports[index].lineNumber
        named == IF rules.namedOnly /\ ~imports[index].named
                 THEN <<Issue(path, lineNumber, "imports.namedOnly",
                              Text("Use named imports: import {Contract} from \"./file.sol\""),
                              "warning")>>
                 ELSE <<>>
        alpha == IF rules.alphabetical /\ index > 1
                 THEN LET currentFrom  == imports[index].from
                          previousFrom == imports[index - 1].from
                      IN IF currentFrom.found /\ previousFrom.found
                            /\ StrLess(currentFrom.path, previousFrom.path)
                         THEN <<Issue(path, lineNumber, "imports.alphabetical",
                                      Text("Imports should be alphabetically ordered"),
                                      "warning")>>
                         ELSE <<>>
                 ELSE <<>>
    IN named \o alpha

checkImports(path, scan) ==
    IF ~RULES.imports.on THEN <<>>
    ELSE Flatten([index \in 1..Len(scan.imports) |-> checkImport(path, scan.imports, index)])

(***************************************************************************)
(* checkNaming                                                             *)
(***************************************************************************)
\* ['constructor', 'receive', 'fallback'].includes(functionName)
isSpecialFunction(functionName) ==
    functionName \in {ConstructorWord, ReceiveWord, FallbackWord}

checkContractNames(path, scan) ==
    LET rules == RULES.naming
        one(c) ==
            IF rules.contracts = "CapWords" /\ ~isCapWords(c.contractName)
            THEN <<Issue(path, c.lineNumber, "naming.contracts",
                         Msg("Contract name '${contractName}' should use CapWords style",
                             c.contractName, "", 0, 0),
                         Severity("naming.contracts", "error"))>>
            ELSE <<>>
    IN IF rules.contracts = "" THEN <<>>
       ELSE Flatten([i \in 1..Len(scan.contracts) |-> one(scan.contracts[i])])

\* the check of the private/internal function naming rule for one function
checkPrivateInternalName(path, lineNumber, functionName, visibility) ==
    IF RULES.naming.privateInternalFunctions = "_underscoreMixedCase"
       /\ visibility \in {"private", "internal"}
       /\ ~isUnderscoreMixedCase(functionName)
    THEN <<Issue(path, lineNumber, "naming.privateInternalFunctions",
                 Msg("${visibility} function '${functionName}' should use _underscoreMixedCase style",
                     functionName, visibility, 0, 0),
                 "error")>>
    ELSE <<>>

\* a variant of shouldHaveUnderscore that looks at the rule alone
shouldHaveUnderscoreForAll(visibility) ==
    RULES.naming.privateInternalFunctions = "_underscoreMixedCase"

\* a variant of shouldHaveUnderscore that is never true, as if the general check
\* did not skip the functions the private/internal rule covers
shouldHaveUnderscoreNever(visibility) == FALSE

\* const shouldHaveUnderscore
shouldHaveUnderscore(visibility) ==
    visibility \in {"private", "internal"}
    /\ RULES.naming.privateInternalFunctions = "_underscoreMixedCase"

\* the check of the general function naming rule for one function
checkFunctionName(path, lineNumber, functionName, visibility) ==
    IF RULES.naming.functions = "mixedCase" /\ ~shouldHaveUnderscore(visibility)
       /\ ~isMixedCase(functionName)
    THEN <<Issue(path, lineNumber, "naming.functions",
                 Msg("Function name '${functionName}' should use mixedCase style",
                     functionName, "", 0, 0),
                 Severity("naming.functions", "error"))>>
    ELSE <<>>

\* a variant of checkArgument that does not skip the data locations
checkArgumentWithDataLocations(path, lineNumber, a) ==
    IF Len(a.arg) > 0 /\ a.matched /\ ~isUnderscoreMixedCase(a.argName)
    THEN <<Issue(path, lineNumber, "naming.functionArguments",
                 Msg("Function argument '${argName}' should use _underscoreMixedCase style",
                     a.argName, "", 0, 0),
                 "error")>>
    ELSE <<>>

\* a variant of checkArgument without the test of argNameMatch: reading
\* argNameMatch[1] of a fragment without a name throws
checkArgumentUnguarded(path, lineNumber, a) ==
    IF Len(a.arg) > 0 /\ ~a.matched THEN <<Thrown>>
    ELSE IF Len(a.arg) > 0
       /\ a.argName \notin {MemoryWord, StorageWord, CalldataWord}
       /\ ~isUnderscoreMixedCase(a.argName)
    THEN <<Issue(path, lineNumber, "naming.functionArguments",
                 Msg("Function argument '${argName}' should use _underscoreMixedCase style",
                     a.argName, "", 0, 0),
                 "error")>>
    ELSE <<>>

\* the check of one argument fragment
checkArgument(path, lineNumber, a) ==
    IF Len(a.arg) > 0 /\ a.matched
       /\ a.argName \notin {MemoryWord, StorageWord, CalldataWord}
       /\ ~isUnderscoreMixedCase(a.argName)
    THEN <<Issue(path, lineNumber, "naming.functionArguments",
                 Msg("Function argument '${argName}' should use _underscoreMixedCase style",
                     a.argName, "", 0, 0),
                 "error")>>
    ELSE <<>>

checkFunctionArguments(path, lineNumber, f) ==
    IF RULES.naming.functionArguments = "_underscoreMixedCase"
       /\ Len(Trim(f.functionArgs)) > 0
    THEN Flatten([i \in 1..Len(f.args) |-> checkArgument(path, lineNumber, f.args[i])])
    ELSE <<>>

\* the body of the function loop for one match
checkFunction(path, f) ==
    IF isSpecialFunction(f.functionName) THEN <<>>
    ELSE checkPrivateInternalName(path, f.lineNumber, f.functionName, f.visibility)
         \o checkFunctionName(path, f.lineNumber, f.functionName, f.visibility)
         \o checkFunctionArguments(path, f.lineNumber, f)

checkFunctions(path, scan) ==
    LET rules == RULES.naming
    IN IF rules.functions # "" \/ rules.functionArguments # ""
          \/ rules.privateInternalFunctions # ""
       THEN Flatten([i \in 1..Len(scan.functions) |-> checkFunction(path, scan.functions[i])])
       ELSE <<>>

\* a variant of checkEvents whose past-tense check runs only for the names that
\* pass the CapWords check
checkEventsPastTenseOfCapWords(path, scan) ==
    LET rules == RULES.naming
        one(e) ==
            IF rules.events = "CapWords" /\ ~isCapWords(e.eventName)
            THEN <<Issue(path, e.lineNumber, "naming.events",
                         Msg("Event name '${eventName}' should use CapWords style",
                             e.eventName, "", 0, 0),
                         "error")>>
            ELSE IF rules.eventsPastTense /\ ~isPastTense(e.eventName)
            THEN <<Issue(path, e.lineNumber, "naming.eventsPastTense",
                         Msg("Event name '${eventName}' should be past tense (e.g., 'OwnerUpdated' not 'OwnerUpdate')",
                             e.eventName, "", 0, 0),
                         "info")>>
            ELSE <<>>
    IN IF rules.events = "" THEN <<>>
       ELSE Flatten([i \in 1..Len(scan.events) |-> one(scan.events[i])])

checkEvents(path, scan) ==
    LET rules == RULES.naming
        one(e) ==
            (IF rules.events = "CapWords" /\ ~isCapWords(e.eventName)
             THEN <<Issue(path, e.lineNumber, "naming.events",
                          Msg("Event name '${eventName}' should use CapWords style",
                              e.eventName, "", 0, 0),
                          "error")>>
             ELSE <<>>)
            \o
            (IF rules.eventsPastTense /\ ~isPastTense(e.eventName)
             THEN <<Issue(path, e.lineNumber, "naming.eventsPastTense",
                          Msg("Event name '${eventName}' should be past tense (e.g., 'OwnerUpdated' not 'OwnerUpdate')",
                              e.eventName, "", 0, 0),
                          "info")>>
             ELSE <<>>)
    IN IF rules.events = "" THEN <<>>
       ELSE Flatten([i \in 1..Len(scan.events) |-> one(scan.events[i])])

checkConstants(path, scan) ==
    LET rules == RULES.naming
        one(c) ==
            IF rules.constants = "UPPER_CASE" /\ ~isUpperCase(c.constantName)
            THEN <<Issue(path, c.lineNumber, "naming.constants",
                         Msg("Constant '${constantName}' should use UPPER_CASE_WITH_UNDERSCORES style",
                             c.constantName, "", 0, 0),
                         "error")>>
            ELSE <<>>
    IN IF rules.constants = "" THEN <<>>
       ELSE Flatten([i \in 1..Len(scan.constants) |-> one(scan.constants[i])])

checkNaming(path, scan) ==
    IF ~RULES.naming.on THEN <<>>
    ELSE checkContractNames(path, scan) \o checkFunctions(path, scan)
         \o checkEvents(path, scan) \o checkConstants(path, scan)

(***************************************************************************)
(* checkLayout                                                             *)
(***************************************************************************)
\* a variant of checkLine that reports a line of the maximum length too
checkLineAtMaximum(path, line, lineNumber) ==
    LET rules == RULES.layout
    IN (IF rules.maxLineLength # 0 /\ line.length >= rules.maxLineLength
        THEN <<Issue(path, lineNumber, "layout.maxLineLength",
                     Msg("Line length ${line.length} exceeds maximum ${rules.maxLineLength}",
                         <<>>, "", line.length, rules.maxLineLength),
                     Severity("layout.maxLineLength", "warning"))>>
        ELSE <<>>)
       \o
       (IF rules.indentation # 0 /\ rules.noTabs /\ line.hasTab
        THEN <<Issue(path, lineNumber, "layout.noTabs",
                     Text("Use spaces instead of tabs for indentation"), "error")>>
        ELSE <<>>)
       \o
       (IF rules.noTrailingWhitespace /\ line.trailing
        THEN <<Issue(path, lineNumber, "layout.noTrailingWhitespace",
                     Text("Remove trailing whitespace"), "warning")>>
        ELSE <<>>)

\* a variant of checkLine whose tab check does not depend on the indentation
checkLineTabsWithoutIndentation(path, line, lineNumber) ==
    LET rules == RULES.layout
    IN (IF rules.maxLineLength # 0 /\ line.length > rules.maxLineLength
        THEN <<Issue(path, lineNumber, "layout.maxLineLength",
                     Msg("Line length ${line.length} exceeds maximum ${rules.maxLineLength}",
                         <<>>, "", line.length, rules.maxLineLength),
                     Severity("layout.maxLineLength", "warning"))>>
        ELSE <<>>)
       \o
       (IF rules.noTabs /\ line.hasTab
        THEN <<Issue(path, lineNumber, "layout.noTabs",
                     Text("Use spaces instead of tabs for indentation"), "error")>>
        ELSE <<>>)
       \o
       (IF rules.noTrailingWhitespace /\ line.trailing
        THEN <<Issue(path, lineNumber, "layout.noTrailingWhitespace",
                     Text("Remove trailing whitespace"), "warning")>>
        ELSE <<>>)

\* a variant of checkLine that checks the tabs before the length
checkLineTabsFirst(path, line, lineNumber) ==
    LET rules == RULES.layout
    IN (IF rules.indentation # 0 /\ rules.noTabs /\ line.hasTab
        THEN <<Issue(path, lineNumber, "layout.noTabs",
                     Text("Use spaces instead of tabs for indentation"), "error")>>
        ELSE <<>>)
       \o
       (IF rules.maxLineLength # 0 /\ line.length > rules.maxLineLength
        THEN <<Issue(path, lineNumber, "layout.maxLineLength",
                     Msg("Line length ${line.length} exceeds maximum ${rules.maxLineLength}",
                         <<>>, "", line.length, rules.maxLineLength),
                     Severity("layout.maxLineLength", "warning"))>>
        ELSE <<>>)
       \o
       (IF rules.noTrailingWhitespace /\ line.trailing
        THEN <<Issue(path, lineNumber, "layout.noTrailingWhitespace",
                     Text("Remove trailing whitespace"), "warning")>>
        ELSE <<>>)

\* the body of the forEach for one line
checkLine(path, line, lineNumber) ==
    LET rules == RULES.layout
    IN (IF rules.maxLineLength # 0 /\ line.length > rules.maxLineLength
        THEN <<Issue(path, lineNumber, "layout.maxLineLength",
                     Msg("Line length ${line.length} exceeds maximum ${rules.maxLineLength}",
                         <<>>, "", line.length, rules.maxLineLength),
                     Severity("layout.maxLineLength", "warning"))>>
        ELSE <<>>)
       \o
       (IF rules.indentation # 0 /\ rules.noTabs /\ line.hasTab
        THEN <<Issue(path, lineNumber, "layout.noTabs",
                     Text("Use spaces instead of tabs for indentation"), "error")>>
        ELSE <<>>)
       \o
       (IF rules.noTrailingWhitespace /\ line.trailing
        THEN <<Issue(path, lineNumber, "layout.noTrailingWhitespace",
                     Text("Remove trailing whitespace"), "warning")>>
        ELSE <<>>)

\* a variant of checkLayout without the return on a missing category
checkLayoutUnguarded(path, scan) ==
    Flatten([index \in 1..Len(scan.layout) |-> checkLine(path, scan.layout[index], index)])

checkLayout(path, scan) ==
    IF ~RULES.layout.on THEN <<>>
    ELSE Flatten([index \in 1..Len(scan.layout) |-> checkLine(path, scan.layout[index], index)])

(***************************************************************************)
(* checkFile: the four passes, in order, on the accumulators               *)
(***************************************************************************)
\* a variant of fileIssues that runs the layout pass before the naming pass
fileIssuesLayoutBeforeNaming(path, content) ==
    LET scan == scans[content]
    IN checkFileStructure(path, scan)
       \o checkImports(path, scan)
       \o checkLayout(path, scan)
       \o checkNaming(path, scan)

\* the addIssue calls of checkFile on a file of the given path and content
fileIssues(path, content) ==
    LET scan == scans[content]
    IN checkFileStructure(path, scan)
       \o checkImports(path, scan)
       \o checkNaming(path, scan)
       \o checkLayout(path, scan)

\* checkFile after the read: stats.files++ and the four passes
checkFile(acc, contract) ==
    LET counted == [acc EXCEPT !.stats.files = @ + 1]
    IN addIssues(counted, untilThrown(fileIssues(contract.path, contract.content)))

\* whether checkFile throws: none of the passes catches an exception
checkFileThrows(contract) == Throws(fileIssues(contract.path, contract.content))

(***************************************************************************)
(* findContracts                                                           *)
(***************************************************************************)
\* '.sol'
DotSol == <<".","s","o","l">>
\* '*'
Star == <<"*">>

\* file.replace('.sol', ''): without the first occurrence of '.sol'
RECURSIVE removeDotSol(_)
removeDotSol(file) ==
    IF Len(file) = 0 THEN <<>>
    ELSE IF StartsWith(file, DotSol) THEN SubSeq(file, Len(DotSol) + 1, Len(file))
    ELSE <<Head(file)>> \o removeDotSol(Tail(file))

\* fs.existsSync(fullPath), fs.readFileSync(fullPath, 'utf8') in the source directory
FileExists(file) == \E i \in 1..Len(srcDir.files) : srcDir.files[i].file = file
ReadFile(file) ==
    srcDir.files[CHOOSE i \in 1..Len(srcDir.files) : srcDir.files[i].file = file].content

\* scanDirectory: the .sol files in the order the directory lists them
RECURSIVE scanDirectory(_)
scanDirectory(files) ==
    IF Len(files) = 0 THEN <<>>
    ELSE (IF EndsWith(Head(files).file, DotSol)
          THEN <<[name |-> removeDotSol(Head(files).file), file |-> Head(files).file,
                  path |-> Head(files).file]>>
          ELSE <<>>)
         \o scanDirectory(Tail(files))

\* CONTRACT_NAMES.map(name => ...) when no name is missing
namedContracts ==
    [i \in 1..Len(CONTRACT_NAMES) |->
        [name |-> CONTRACT_NAMES[i], file |-> CONTRACT_NAMES[i] \o DotSol,
         path |-> CONTRACT_NAMES[i] \o DotSol]]

\* a variant of findContracts that leaves out the names without a file
findContractsSkippingMissing ==
    IF ~srcDir.exists THEN [ok |-> FALSE, contracts |-> <<>>]
    ELSE IF \E i \in 1..Len(CONTRACT_NAMES) : CONTRACT_NAMES[i] = Star
    THEN [ok |-> TRUE, contracts |-> scanDirectory(srcDir.files)]
    ELSE LET found(c) == FileExists(c.file)
         IN [ok |-> TRUE, contracts |-> SelectSeq(namedContracts, found)]

\* findContracts: [ok, contracts]; ok is FALSE when it calls process.exit(1)
findContracts ==
    IF ~srcDir.exists THEN [ok |-> FALSE, contracts |-> <<>>]
    ELSE IF \E i \in 1..Len(CONTRACT_NAMES) : CONTRACT_NAMES[i] = Star
    THEN [ok |-> TRUE, contracts |-> scanDirectory(srcDir.files)]
    ELSE IF \E i \in 1..Len(CONTRACT_NAMES) : ~FileExists(CONTRACT_NAMES[i] \o DotSol)
    THEN [ok |-> FALSE, contracts |-> <<>>]
    ELSE [ok |-> TRUE, contracts |-> namedContracts]

(***************************************************************************)
(* printResults: the groups it prints, in order                            *)
(***************************************************************************)
\* issuesByFile after the first forEach: a sequence of [file, issues] in the
\* order the keys were inserted
RECURSIVE groupByFile(_, _)
groupByFile(groups, rest) ==
    IF Len(rest) = 0 THEN groups
    ELSE LET issue == Head(rest)
         IN IF \E g \in 1..Len(groups) : groups[g].file = issue.file
            THEN LET g == CHOOSE g \in 1..Len(groups) : groups[g].file = issue.file
                 IN groupByFile([groups EXCEPT ![g].issues = Append(@, issue)], Tail(rest))
            ELSE groupByFile(Append(groups, [file |-> issue.file, issues |-> <<issue>>]),
                             Tail(rest))

\* a variant of printResults that prints the groups in the alphabetical order of
\* their files
printResultsAlphabetical ==
    LET groups == groupByFile(<<>>, issues)
        before(i) == Cardinality({j \in 1..Len(groups) : StrLess(groups[j].file, groups[i].file)})
    IN [k \in 1..Len(groups) |-> groups[CHOOSE i \in 1..Len(groups) : before(i) = k - 1]]

printResults == groupByFile(<<>>, issues)

(***************************************************************************)
(* The steps.  main is a loop over the files, one checkFile call a step;   *)
(* main and checkFile are also the module's exports, which a program that  *)
(* requires the module calls as often as it likes.                         *)
(***************************************************************************)
\* the calls of main by one process, and its calls of checkFile
MaxRuns == 2
MaxApiCalls == 1

NoStats == [files |-> 0, errors |-> 0, warnings |-> 0, info |-> 0, passed |-> 0]

\* the module has been loaded
InitChecker ==
    /\ stats = NoStats
    /\ issues = <<>>
    /\ pc = "idle"
    /\ contracts = <<>>
    /\ next = 1
    /\ exitCode = -1
    /\ report = <<>>
    /\ origin = <<>>
    /\ runs = 0
    /\ apiCalls = 0
    /\ yielded = <<>>

inputs == <<RULES, RULE_SEVERITY, CONTRACT_NAMES, srcDir, scans>>

\* the issues and stats after checkFile(contract), and the history of it
Checked(contract) ==
    LET acc == checkFile([issues |-> issues, stats |-> stats],
                         [path |-> contract.path, content |-> ReadFile(contract.file)])
    IN /\ issues' = acc.issues
       /\ stats' = acc.stats
       /\ origin' = origin \o [i \in 1..(Len(acc.issues) - Len(issues)) |-> acc.stats.files]

\* main up to the forEach: findContracts succeeds
MainStart ==
    /\ pc \in {"idle", "returned"}
    /\ runs < MaxRuns
    /\ findContracts.ok
    /\ contracts' = findContracts.contracts
    /\ next' = 1
    /\ pc' = "loop"
    /\ exitCode' = -1
    /\ runs' = runs + 1
    /\ UNCHANGED <<inputs, stats, issues, report, origin, apiCalls, yielded>>

\* main up to the forEach: findContracts ends the process
MainDiscoveryFails ==
    /\ pc \in {"idle", "returned"}
    /\ runs < MaxRuns
    /\ ~findContracts.ok
    /\ pc' = "exited"
    /\ exitCode' = 1
    /\ runs' = runs + 1
    /\ UNCHANGED <<inputs, stats, issues, contracts, next, report, origin, apiCalls, yielded>>

\* one call of the forEach: checkFile(contract), and main's catch when it throws
MainCheckFile ==
    /\ pc = "loop"
    /\ next <= Len(contracts)
    /\ Checked(contracts[next])
    /\ IF checkFileThrows([path |-> contracts[next].path,
                           content |-> ReadFile(contracts[next].file)])
       THEN pc' = "exited" /\ exitCode' = 1 /\ next' = next
       ELSE next' = next + 1 /\ UNCHANGED <<pc, exitCode>>
    /\ UNCHANGED <<inputs, contracts, report, runs, apiCalls, yielded>>

\* one call of the forEach in which readFileSync throws: main's catch
MainReadFails ==
    /\ pc = "loop"
    /\ next <= Len(contracts)
    /\ pc' = "exited"
    /\ exitCode' = 1
    /\ UNCHANGED <<inputs, stats, issues, contracts, next, report, origin, runs, apiCalls, yielded>>

\* a variant of MainFinish that exits with 1 on any finding
MainFinishExitOnFindings ==
    /\ pc = "loop"
    /\ next > Len(contracts)
    /\ report' = printResults
    /\ yielded' = Append(yielded, issues)
    /\ IF Len(issues) > 0
       THEN pc' = "exited" /\ exitCode' = 1
       ELSE pc' = "returned" /\ exitCode' = 0
    /\ UNCHANGED <<inputs, stats, issues, contracts, next, origin, runs, apiCalls>>

\* main after the forEach: printResults, and the exit on errors
MainFinish ==
    /\ pc = "loop"
    /\ next > Len(contracts)
    /\ report' = printResults
    /\ yielded' = Append(yielded, issues)
    /\ IF stats.errors > 0
       THEN pc' = "exited" /\ exitCode' = 1
       ELSE pc' = "returned" /\ exitCode' = 0
    /\ UNCHANGED <<inputs, stats, issues, contracts, next, origin, runs, apiCalls>>

\* a program that requires the module calls checkFile itself
ApiCheckFile ==
    /\ pc \in {"idle", "returned"}
    /\ apiCalls < MaxApiCalls
    /\ apiCalls' = apiCalls + 1
    /\ findContracts.ok
    /\ \E i \in 1..Len(findContracts.contracts) : Checked(findContracts.contracts[i])
    /\ UNCHANGED <<inputs, pc, contracts, next, exitCode, report, runs, yielded>>

Next ==
    \/ MainStart
    \/ MainDiscoveryFails
    \/ MainCheckFile
    \/ MainReadFails
    \/ MainFinish
    \/ ApiCheckFile


(***************************************************************************)
(* Configurations.  A category that is absent (or otherwise falsy) has     *)
(* on = FALSE; a rule that is absent is FALSE, "" or 0.                    *)
(***************************************************************************)
\* RULES of build-config.js, the rules checker.js reads
ShippedStructure == [on |-> TRUE, spdxLicense |-> TRUE, spdxAtTop |-> TRUE,
                     pragmaAfterLicense |-> TRUE]
ShippedImports   == [on |-> TRUE, namedOnly |-> TRUE, alphabetical |-> TRUE]
ShippedNaming    == [on |-> TRUE, contracts |-> "CapWords", functions |-> "mixedCase",
                     functionArguments |-> "_underscoreMixedCase",
                     privateInternalFunctions |-> "_underscoreMixedCase",
                     events |-> "CapWords", eventsPastTense |-> TRUE,
                     constants |-> "UPPER_CASE"]
ShippedLayout    == [on |-> TRUE, indentation |-> 4, noTabs |-> TRUE,
                     maxLineLength |-> 120, noTrailingWhitespace |-> TRUE]
ShippedRules     == [structure |-> ShippedStructure, imports |-> ShippedImports,
                     naming |-> ShippedNaming, layout |-> ShippedLayout]
\* RULE_SEVERITY of build-config.js, the entries checker.js reads
ShippedSeverity  == [k \in SeverityKeys |->
                        IF k = "layout.maxLineLength" THEN "warning" ELSE "error"]
\* no entry at all
NoSeverity       == [k \in SeverityKeys |-> ""]

\* a category that is missing from RULES
Off(category) == [category EXCEPT !.on = FALSE]

\* a category that is an object without rules
EmptyStructure == [on |-> TRUE, spdxLicense |-> FALSE, spdxAtTop |-> FALSE,
                   pragmaAfterLicense |-> FALSE]
EmptyImports   == [on |-> TRUE, namedOnly |-> FALSE, alphabetical |-> FALSE]
EmptyNaming    == [on |-> TRUE, contracts |-> "", functions |-> "",
                   functionArguments |-> "", privateInternalFunctions |-> "",
                   events |-> "", eventsPastTense |-> FALSE, constants |-> ""]
EmptyLayout    == [on |-> TRUE, indentation |-> 0, noTabs |-> FALSE,
                   maxLineLength |-> 0, noTrailingWhitespace |-> FALSE]

\* the shipped rules with any of the four categories missing or without rules
CategoryRules ==
    [structure : {ShippedStructure, Off(ShippedStructure), EmptyStructure},
     imports   : {ShippedImports, Off(ShippedImports), EmptyImports},
     naming    : {ShippedNaming, Off(ShippedNaming), EmptyNaming},
     layout    : {ShippedLayout, Off(ShippedLayout), EmptyLayout}]

(***************************************************************************)
(* Source directories                                                      *)
(***************************************************************************)
\* the files of a source directory, and the names a configuration lists
MaxFiles == 2

\* the sequences of at most n distinct elements of S
RECURSIVE Listings(_, _)
Listings(S, n) ==
    IF n = 0 THEN {<<>>}
    ELSE LET shorter == Listings(S, n - 1)
         IN shorter \cup
            {Append(l, e) : l \in {x \in shorter : Len(x) = n - 1},
                            e \in S}

DistinctFiles(l) == \A i, j \in 1..Len(l) : i # j => l[i].file # l[j].file

\* the directories of at most MaxFiles files: .sol files with a text of texts,
\* and a file that is no source file
Directories(texts) ==
    LET entries == {[file |-> f, content |-> t] : f \in {FileA, FileB}, t \in texts}
                   \cup {[file |-> FileNotes, content |-> TextEmpty]}
    IN {[exists |-> TRUE, files |-> l] :
            l \in {x \in Listings(entries, MaxFiles) : DistinctFiles(x)}}
       \cup {[exists |-> FALSE, files |-> <<>>]}

\* CONTRACT_NAMES: every .sol file, or the files named
NameLists == {<<Star>>, <<NameA>>, <<NameB, NameA>>, <<NameA, NameA>>}

(***************************************************************************)
(* The specification of runs: the shipped configuration and the one that   *)
(* reports nothing as an error, on directories of short files.             *)
(***************************************************************************)
RunTexts == {TextClean, TextWarn, TextInfo, TextErr, TextMixed, TextEmpty}

Init ==
    /\ scans = [content \in RunTexts |-> Scan(content)]
    /\ RULES = ShippedRules
    /\ RULE_SEVERITY \in {ShippedSeverity, NoSeverity}
    /\ CONTRACT_NAMES \in NameLists
    /\ srcDir \in Directories(RunTexts)
    /\ InitChecker

Spec == Init /\ [][Next]_vars


(***************************************************************************)
(* The specification of categories: every choice of missing and empty      *)
(* categories, on a directory of one file with findings of all four passes *)
(* under the shipped rules.                                                *)
(***************************************************************************)
CategoryTexts == {TextMixed, TextErr}

\* the directories of one .sol file, and the directory that does not exist
OneFileDirectories(texts) ==
    {[exists |-> TRUE, files |-> <<[file |-> FileA, content |-> t]>>] : t \in texts}
    \cup {[exists |-> FALSE, files |-> <<>>]}

InitCategories ==
    /\ scans = [content \in CategoryTexts |-> Scan(content)]
    /\ RULES \in CategoryRules
    /\ RULE_SEVERITY = ShippedSeverity
    /\ CONTRACT_NAMES \in {<<Star>>, <<NameA>>}
    /\ srcDir \in OneFileDirectories(CategoryTexts)
    /\ InitChecker

SpecCategories == InitCategories /\ [][Next]_vars

(***************************************************************************)
(* The specification of function declarations: every choice of the three   *)
(* function rules, on a directory of one file with one declaration.        *)
(***************************************************************************)
\* the naming rules with the values a function rule may hold: the value the
\* code compares it with, another value, and none
FunctionRules ==
    {[ShippedNaming EXCEPT !.functions = f, !.privateInternalFunctions = p,
                           !.functionArguments = a] :
        f \in {"mixedCase", "CapWords", ""},
        p \in {"_underscoreMixedCase", ""},
        a \in {"_underscoreMixedCase", ""}}

InitFunctions ==
    /\ scans = [content \in FunctionTexts |-> Scan(content)]
    /\ RULES \in {[ShippedRules EXCEPT !.naming = n] : n \in FunctionRules}
    /\ RULE_SEVERITY \in {ShippedSeverity, NoSeverity}
    /\ CONTRACT_NAMES = <<Star>>
    /\ srcDir \in OneFileDirectories(FunctionTexts)
    /\ InitChecker

SpecFunctions == InitFunctions /\ [][Next]_vars

(***************************************************************************)
(* The specification of the structure pass: the category present or        *)
(* missing, every choice of its three rules and of the severity of the     *)
(* license rule, on a directory of one file.                               *)
(***************************************************************************)
StructureRules ==
    [on : BOOLEAN, spdxLicense : BOOLEAN, spdxAtTop : BOOLEAN, pragmaAfterLicense : BOOLEAN]

\* the entries of RULE_SEVERITY for the license rule: none, the three
\* severities addIssue counts, and another word
SpdxSeverities == {"", "error", "warning", "info", "critical"}

InitStructure ==
    /\ scans = [content \in StructureTexts |-> Scan(content)]
    /\ RULES \in {[ShippedRules EXCEPT !.structure = s] : s \in StructureRules}
    /\ RULE_SEVERITY \in {[ShippedSeverity EXCEPT !["structure.spdxLicense"] = s] :
                              s \in SpdxSeverities}
    /\ CONTRACT_NAMES = <<Star>>
    /\ srcDir \in OneFileDirectories(StructureTexts)
    /\ InitChecker

SpecStructure == InitStructure /\ [][Next]_vars

(***************************************************************************)
(* The specification of the import pass: the category present or missing   *)
(* and every choice of its two rules, on a directory of one file.          *)
(***************************************************************************)
ImportRules == [on : BOOLEAN, namedOnly : BOOLEAN, alphabetical : BOOLEAN]

InitImports ==
    /\ scans = [content \in ImportTexts |-> Scan(content)]
    /\ RULES \in {[ShippedRules EXCEPT !.imports = i] : i \in ImportRules}
    /\ RULE_SEVERITY = ShippedSeverity
    /\ CONTRACT_NAMES = <<Star>>
    /\ srcDir \in OneFileDirectories(ImportTexts)
    /\ InitChecker

SpecImports == InitImports /\ [][Next]_vars

(***************************************************************************)
(* The specification of declarations: the shipped naming rules with one of *)
(* the rules for contracts, events, constants and function arguments       *)
(* changed, on a directory of one file with a declaration.                 *)
(***************************************************************************)
\* for each rule: the value the code compares it with, another value, and none
NamingRuleChoices ==
    {[ShippedNaming EXCEPT !.contracts = c] : c \in {"CapWords", "mixedCase", ""}}
    \cup {[ShippedNaming EXCEPT !.events = e, !.eventsPastTense = p] :
             e \in {"CapWords", "mixedCase", ""}, p \in BOOLEAN}
    \cup {[ShippedNaming EXCEPT !.constants = c] : c \in {"UPPER_CASE", "mixedCase", ""}}
    \cup {[ShippedNaming EXCEPT !.functionArguments = a] :
             a \in {"_underscoreMixedCase", "mixedCase", ""}}

InitNaming ==
    /\ scans = [content \in NamingTexts |-> Scan(content)]
    /\ RULES \in {[ShippedRules EXCEPT !.naming = n] : n \in NamingRuleChoices}
    /\ RULE_SEVERITY \in {ShippedSeverity, NoSeverity}
    /\ CONTRACT_NAMES = <<Star>>
    /\ srcDir \in OneFileDirectories(NamingTexts)
    /\ InitChecker

SpecNaming == InitNaming /\ [][Next]_vars

(***************************************************************************)
(* The specification of line lengths: the category present or missing,     *)
(* every maximum and every severity of the rule, on a directory of one     *)
(* file.                                                                   *)
(***************************************************************************)
LengthRules == {[ShippedLayout EXCEPT !.on = o, !.maxLineLength = m] :
                   o \in BOOLEAN, m \in MaxLineLengths}

\* the entries of RULE_SEVERITY for the rule: none, and the three severities
LengthSeverities == {"", "error", "warning", "info"}

InitLengths ==
    /\ scans = [content \in LengthTexts |-> Scan(content)]
    /\ RULES \in {[ShippedRules EXCEPT !.layout = l] : l \in LengthRules}
    /\ RULE_SEVERITY \in {[ShippedSeverity EXCEPT !["layout.maxLineLength"] = s] :
                              s \in LengthSeverities}
    /\ CONTRACT_NAMES = <<Star>>
    /\ srcDir \in OneFileDirectories(LengthTexts)
    /\ InitChecker

SpecLengths == InitLengths /\ [][Next]_vars

(***************************************************************************)
(* The specification of the layout pass: the category present or missing   *)
(* and every choice of its rules, on a directory of one file.              *)
(***************************************************************************)
\* the indentation is the shipped one or none, the maximum a short one or none
LayoutRules ==
    [on : BOOLEAN, indentation : {0, 4}, noTabs : BOOLEAN, maxLineLength : {0, 10},
     noTrailingWhitespace : BOOLEAN]

InitLayout ==
    /\ scans = [content \in LayoutTexts |-> Scan(content)]
    /\ RULES \in {[ShippedRules EXCEPT !.layout = l] : l \in LayoutRules}
    /\ RULE_SEVERITY = ShippedSeverity
    /\ CONTRACT_NAMES = <<Star>>
    /\ srcDir \in OneFileDirectories(LayoutTexts)
    /\ InitChecker

SpecLayout == InitLayout /\ [][Next]_vars

(***************************************************************************)
(* The specification of texts that are no well-formed source: the shipped  *)
(* rules with any of the categories missing or without rules, on a         *)
(* directory of one file.                                                  *)
(***************************************************************************)
InitTexts ==
    /\ scans = [content \in OddTexts |-> Scan(content)]
    /\ RULES \in CategoryRules
    /\ RULE_SEVERITY \in {ShippedSeverity, NoSeverity}
    /\ CONTRACT_NAMES = <<Star>>
    /\ srcDir \in OneFileDirectories(OddTexts)
    /\ InitChecker

SpecTexts == InitTexts /\ [][Next]_vars

(***************************************************************************)
(* Properties of a process's runs (Spec)                                   *)
(***************************************************************************)
\* the number of findings of a severity in a sequence of findings
CountSeverity(found, severity) ==
    Cardinality({i \in 1..Len(found) : found[i].severity = severity})

\* C1: a main that reaches its end exits with a non-zero status exactly when the
\* findings hold an error; warnings and info findings alone leave the status 0.
C1_ExitStatusIffErrors ==
    [][MainFinish => ((exitCode' # 0) <=> (CountSeverity(issues', "error") > 0))]_vars

\* C1: a main has ended with status 1 on findings that hold errors and warnings
C1_Witness ==
    /\ pc = "exited"
    /\ exitCode = 1
    /\ Len(yielded) = runs
    /\ CountSeverity(issues, "error") > 0
    /\ CountSeverity(issues, "warning") > 0

\* C2: each of the counters errors, warnings and info is the number of findings
\* of that severity, so that errors > 0 exactly when some finding is an error.
C2_CountersCountFindings ==
    /\ stats.errors = CountSeverity(issues, "error")
    /\ stats.warnings = CountSeverity(issues, "warning")
    /\ stats.info = CountSeverity(issues, "info")
    /\ (stats.errors > 0) <=> (\E i \in 1..Len(issues) : issues[i].severity = "error")

\* C2: findings of all three severities have been added
C2_Witness == stats.errors > 0 /\ stats.warnings > 0 /\ stats.info > 0

\* the rule identifiers of the addIssue calls of each pass
StructureRuleIds == {"structure.spdxLicense", "structure.spdxAtTop",
                     "structure.pragmaAfterLicense"}
ImportsRuleIds == {"imports.namedOnly", "imports.alphabetical"}
NamingRuleIds == {"naming.contracts", "naming.privateInternalFunctions", "naming.functions",
                  "naming.functionArguments", "naming.events", "naming.eventsPastTense",
                  "naming.constants"}
LayoutRuleIds == {"layout.maxLineLength", "layout.noTabs", "layout.noTrailingWhitespace"}

\* the place in checkFile's order of the pass that reports a rule
PassOf(rule) ==
    CASE rule \in StructureRuleIds -> 1
      [] rule \in ImportsRuleIds -> 2
      [] rule \in NamingRuleIds -> 3
      [] rule \in LayoutRuleIds -> 4

\* the passes with a finding among the findings of checkFile call number call
PassesOfCall(call) == {PassOf(issues[i].rule) : i \in {k \in 1..Len(issues) : origin[k] = call}}

\* C6: the findings of an earlier checkFile call precede those of a later one, and
\* among the findings of one call those of the structure pass precede those of the
\* imports pass, which precede those of the naming pass, which precede those of
\* the layout pass.
C6_FindingsInFileAndPassOrder ==
    \A i, j \in 1..Len(issues) :
        i < j => /\ origin[i] <= origin[j]
                 /\ origin[i] = origin[j] => PassOf(issues[i].rule) <= PassOf(issues[j].rule)

\* C6: two files have been checked, both with findings, one with findings of all
\* four passes
C6_Witness ==
    /\ \E i, j \in 1..Len(issues) : origin[i] # origin[j]
    /\ \E i \in 1..Len(issues) : PassesOfCall(origin[i]) = {1, 2, 3, 4}

\* the findings of the files that the current main has checked so far
RunFindings ==
    Flatten([j \in 1..(next - 1) |->
                fileIssues(contracts[j].path, ReadFile(contracts[j].file))])

\* C4: while a main checks its files, the findings and the counters hold the
\* results of that main's files alone, whatever ran before it in the process.
C4_FreshEachRun ==
    pc = "loop" => /\ stats.files = next - 1
                   /\ issues = RunFindings

\* C5: two mains of one process, over the same files and configuration and with
\* no other call between them, end with the same sequence of findings.
C5_SameFindingsTwice ==
    (Len(yielded) = 2 /\ apiCalls = 0) => yielded[1] = yielded[2]

(***************************************************************************)
(* Properties of the categories (SpecCategories)                           *)
(***************************************************************************)
\* a category that is missing, or that has no rule
Disabled(category) ==
    \/ ~category.on
    \/ category \in {EmptyStructure, EmptyImports, EmptyNaming, EmptyLayout}

\* C3: no finding has a rule identifier of a category that the configuration
\* lacks or gives no rule, whatever the text of the file.
C3_NoFindingOfDisabledCategory ==
    \A i \in 1..Len(issues) :
        /\ Disabled(RULES.structure) => issues[i].rule \notin StructureRuleIds
        /\ Disabled(RULES.imports) => issues[i].rule \notin ImportsRuleIds
        /\ Disabled(RULES.naming) => issues[i].rule \notin NamingRuleIds
        /\ Disabled(RULES.layout) => issues[i].rule \notin LayoutRuleIds

\* C3: a file that has findings of all four passes under the shipped rules has
\* been checked with the layout category missing and the imports category
\* without rules, and has findings of the two other categories
C3_Witness ==
    /\ stats.files > 0
    /\ srcDir.exists /\ srcDir.files[1].content = TextMixed
    /\ ~RULES.layout.on
    /\ RULES.imports = EmptyImports
    /\ \E i \in 1..Len(issues) : issues[i].rule \in StructureRuleIds
    /\ \E i \in 1..Len(issues) : issues[i].rule \in NamingRuleIds

(***************************************************************************)
(* Properties of function declarations (SpecFunctions)                     *)
(***************************************************************************)
\* the text of the one file of the directory
TheContent == srcDir.files[1].content

\* the findings of a rule that checkFile call number call added
CallFindings(call, rule) ==
    {i \in 1..Len(issues) : origin[i] = call /\ issues[i].rule = rule}

\* the findings of the two function naming rules that a call added
NameFindings(call) ==
    Cardinality(CallFindings(call, "naming.privateInternalFunctions"))
    + Cardinality(CallFindings(call, "naming.functions"))

\* the words of a text: the maximal runs of letters, digits and underscores
WordStarts(t) == {p \in 1..Len(t) : t[p] \in IdChar /\ (p = 1 \/ t[p - 1] \notin IdChar)}
WordAt(t, p) == SubSeq(t, p, Max({q \in p..Len(t) : \A r \in p..q : t[r] \in IdChar}))

\* the first visibility keyword among the words of a tail, "none" without one
DeclaredVisibility(tail) ==
    LET keywords == {p \in WordStarts(tail) :
                        WordAt(tail, p) \in {PublicWord, ExternalWord, InternalWord, PrivateWord}}
    IN IF keywords = {} THEN "none" ELSE VisibilityName(WordAt(tail, Min(keywords)))
ResolvedVisibility(tail) ==
    IF DeclaredVisibility(tail) = "none" THEN "internal" ELSE DeclaredVisibility(tail)

\* the underscore rule for private and internal functions is enabled
UnderscoreRuleOn == RULES.naming.privateInternalFunctions = "_underscoreMixedCase"
\* the function loop runs: one of the three function rules is set
FunctionLoopOn ==
    \/ RULES.naming.functions # ""
    \/ RULES.naming.functionArguments # ""
    \/ RULES.naming.privateInternalFunctions # ""

\* the declaration d is the one file's text
Declared(d) == srcDir.exists /\ TheContent = FunctionText(d.name, d.tail)

\* C7 as stated: in every configuration in which the function loop runs, a
\* function whose name is valid under neither rule gets the finding of exactly
\* one of the two rules.
C7_ExactlyOneRuleAlways ==
    \A d \in FunctionDecls : \A call \in 1..stats.files :
        (Declared(d) /\ d.name = NameDoIt /\ FunctionLoopOn) => NameFindings(call) = 1

\* C7 amended: no function gets a finding of both rules; a function whose name
\* is valid under neither rule gets exactly one finding when the general rule is
\* 'mixedCase', and otherwise one only if it is private or internal and the
\* underscore rule is enabled, none if not.
C7_AtMostOneRuleExactlyOneWhenGeneralOn ==
    \A d \in FunctionDecls : \A call \in 1..stats.files :
        Declared(d) =>
            /\ NameFindings(call) <= 1
            /\ d.name = NameDoIt =>
                 IF RULES.naming.functions = "mixedCase"
                 THEN NameFindings(call) = 1
                 ELSE (NameFindings(call) = 1) <=>
                      (UnderscoreRuleOn /\ ResolvedVisibility(d.tail) \in {"private", "internal"})

\* C7: a private function with a name valid under neither rule has been checked
\* with both rules enabled
C7_Witness ==
    /\ Declared([name |-> NameDoIt, tail |-> TailPrivate])
    /\ UnderscoreRuleOn /\ RULES.naming.functions = "mixedCase"
    /\ stats.files > 0
    /\ NameFindings(1) = 1

\* C8 as stated: with the underscore rule enabled, every private or internal
\* function whose name is not _underscoreMixedCase gets exactly one finding of
\* naming.privateInternalFunctions, an error, and none of naming.functions.
C8_OneUnderscoreFindingEveryName ==
    \A d \in FunctionDecls : \A call \in 1..stats.files :
        (Declared(d) /\ UnderscoreRuleOn /\ d.name # NameUnderHelper
         /\ ResolvedVisibility(d.tail) \in {"private", "internal"})
        => /\ Cardinality(CallFindings(call, "naming.privateInternalFunctions")) = 1
           /\ \A i \in CallFindings(call, "naming.privateInternalFunctions") :
                 issues[i].severity = "error"
           /\ CallFindings(call, "naming.functions") = {}

\* C8 amended: the same, for the functions that are not named constructor,
\* receive or fallback.
C8_OneUnderscoreFindingUnlessSpecial ==
    \A d \in FunctionDecls : \A call \in 1..stats.files :
        (Declared(d) /\ UnderscoreRuleOn /\ d.name # NameUnderHelper
         /\ d.name \notin {ConstructorWord, ReceiveWord, FallbackWord}
         /\ ResolvedVisibility(d.tail) \in {"private", "internal"})
        => /\ Cardinality(CallFindings(call, "naming.privateInternalFunctions")) = 1
           /\ \A i \in CallFindings(call, "naming.privateInternalFunctions") :
                 issues[i].severity = "error"
           /\ CallFindings(call, "naming.functions") = {}

\* C8: a private function with a valid mixedCase name has been checked with both
\* rules enabled, and has the finding of the underscore rule
C8_Witness ==
    /\ Declared([name |-> NameHelper, tail |-> TailPrivate])
    /\ UnderscoreRuleOn /\ RULES.naming.functions = "mixedCase"
    /\ stats.files > 0
    /\ CallFindings(1, "naming.privateInternalFunctions") # {}

ContainsMarker(text) ==
    \E p \in 1..Len(text) :
        /\ p + Len(SpdxMarker) - 1 <= Len(text)
        /\ \A k \in 1..Len(SpdxMarker) : text[p + k - 1] = SpdxMarker[k]

\* C10: with the license rule enabled, a checked file gets exactly one finding
\* of structure.spdxLicense when its text does not hold the marker and none
\* when it does; the finding has the severity RULE_SEVERITY gives the rule, and
\* is an error when RULE_SEVERITY gives none.
C10_MissingSpdxIffNoMarker ==
    \A call \in 1..stats.files :
        (srcDir.exists /\ RULES.structure.on /\ RULES.structure.spdxLicense) =>
            /\ Cardinality(CallFindings(call, "structure.spdxLicense"))
                  = (IF ContainsMarker(TheContent) THEN 0 ELSE 1)
            /\ \A i \in CallFindings(call, "structure.spdxLicense") :
                  issues[i].severity =
                      (IF RULE_SEVERITY["structure.spdxLicense"] = "" THEN "error"
                       ELSE RULE_SEVERITY["structure.spdxLicense"])

\* C10: a file whose license comment lacks the colon has been checked with the
\* rule enabled and no severity configured, and has the finding as an error
C10_Witness ==
    /\ srcDir.exists /\ TheContent = TextSpdxNoColon
    /\ RULES.structure.spdxLicense
    /\ RULE_SEVERITY["structure.spdxLicense"] = ""
    /\ stats.files > 0
    /\ \E i \in CallFindings(1, "structure.spdxLicense") : issues[i].severity = "error"
(***************************************************************************)
(* Properties of the placement checks of the structure pass                *)
(* (SpecStructure)                                                         *)
(***************************************************************************)
\* the line of position p of a text: one more than the line ends before it
OnLine(text, p) == 1 + Cardinality({q \in 1..(p - 1) : text[q] = NL})

\* the word w stands at position p of the text
StandsAt(text, w, p) ==
    /\ p + Len(w) - 1 <= Len(text)
    /\ \A k \in 1..Len(w) : text[p + k - 1] = w[k]

\* the lines that hold the license marker
LicenseLines(text) == {OnLine(text, p) : p \in {q \in 1..Len(text) : StandsAt(text, SpdxMarker, q)}}

\* the lines that begin, after white space at most, with pragma solidity
PragmaLines(text) ==
    {OnLine(text, p) :
        p \in {q \in 1..Len(text) :
                 /\ StandsAt(text, PragmaSolidity, q)
                 /\ \A r \in 1..(q - 1) :
                       OnLine(text, r) = OnLine(text, q) => text[r] \in {SP, TAB, CR}}}

\* C11: a checked file gets exactly one finding of structure.spdxAtTop, a
\* warning, when the presence rule and the placement rule are both enabled, its
\* text holds the license marker and its first line does not, and none
\* otherwise; no file gets both structure.spdxLicense and structure.spdxAtTop.
C11_NotAtTopIffMarkerBelowFirstLine ==
    \A call \in 1..stats.files :
        srcDir.exists =>
            /\ Cardinality(CallFindings(call, "structure.spdxAtTop")) =
                  (IF /\ RULES.structure.on
                      /\ RULES.structure.spdxLicense /\ RULES.structure.spdxAtTop
                      /\ LicenseLines(TheContent) # {}
                      /\ 1 \notin LicenseLines(TheContent)
                   THEN 1 ELSE 0)
            /\ \A i \in CallFindings(call, "structure.spdxAtTop") :
                  issues[i].severity = "warning"
            /\ ~(/\ CallFindings(call, "structure.spdxAtTop") # {}
                 /\ CallFindings(call, "structure.spdxLicense") # {})

\* C11: a file whose license stands on the second line, after an empty first
\* line, has been checked with both rules enabled and has the warning
C11_Witness ==
    /\ srcDir.exists /\ TheContent = TextSpdxAfterEmpty
    /\ RULES.structure.on /\ RULES.structure.spdxLicense /\ RULES.structure.spdxAtTop
    /\ stats.files > 0
    /\ \E i \in CallFindings(1, "structure.spdxAtTop") : issues[i].severity = "warning"

\* C12: with the pragma-after-license rule enabled, whatever the two license
\* rules are, a checked file gets exactly one finding of
\* structure.pragmaAfterLicense, a warning at the line of its first pragma, when
\* it has a pragma line and a license line and the first pragma line comes
\* before the first license line, and none otherwise.
C12_PragmaBeforeLicenseIffLowerIndex ==
    \A call \in 1..stats.files :
        (srcDir.exists /\ RULES.structure.on /\ RULES.structure.pragmaAfterLicense) =>
            /\ Cardinality(CallFindings(call, "structure.pragmaAfterLicense")) =
                  (IF /\ PragmaLines(TheContent) # {}
                      /\ LicenseLines(TheContent) # {}
                      /\ Min(PragmaLines(TheContent)) < Min(LicenseLines(TheContent))
                   THEN 1 ELSE 0)
            /\ \A i \in CallFindings(call, "structure.pragmaAfterLicense") :
                  /\ issues[i].line = Min(PragmaLines(TheContent))
                  /\ issues[i].severity = "warning"

\* C12: a file with an indented pragma on its second line and the license on
\* its third has been checked with the pragma rule enabled and the two license
\* rules disabled, and has the warning at line 2
C12_Witness ==
    /\ srcDir.exists /\ TheContent = TextPragmaIndented
    /\ RULES.structure.on /\ RULES.structure.pragmaAfterLicense
    /\ ~RULES.structure.spdxLicense /\ ~RULES.structure.spdxAtTop
    /\ stats.files > 0
    /\ \E i \in CallFindings(1, "structure.pragmaAfterLicense") : issues[i].line = 2

(***************************************************************************)
(* Properties of the import pass (SpecImports)                             *)
(***************************************************************************)
\* the lines of a text and the characters of its line k
LineCount(text) == 1 + Cardinality({q \in 1..Len(text) : text[q] = NL})
\* the position of the line end that closes line k: 0 for k = 0, and one past
\* the text for its last line
LineEndOf(text, k) ==
    IF k = 0 THEN 0
    ELSE IF k = LineCount(text) THEN Len(text) + 1
    ELSE CHOOSE q \in 1..Len(text) : text[q] = NL /\ OnLine(text, q) = k
TextLine(text, k) == SubSeq(text, LineEndOf(text, k - 1) + 1, LineEndOf(text, k) - 1)

\* the findings of a rule that a call added at a line
FindingsAt(call, rule, line) == {i \in CallFindings(call, rule) : issues[i].line = line}

\* the line begins with the word import: the word, and no letter, digit or
\* underscore after it
BeginsWithImportWord(line) ==
    /\ StandsAt(Trim(line), ImportWord, 1)
    /\ Len(Trim(line)) > Len(ImportWord) => Trim(line)[Len(ImportWord) + 1] \notin IdChar

\* the position of the first character from p on that is no white space
SkipSpace(t, p) == Min({q \in p..(Len(t) + 1) : q = Len(t) + 1 \/ t[q] \notin WS})
\* the position of the first character from p on that is in the set
FirstOf(t, set, p) == Min({q \in p..(Len(t) + 1) : q = Len(t) + 1 \/ t[q] \in set})

\* the text from position p on is an identifier up to, not including, the
\* position given; 0 when there is none at p
IdentifierEnd(t, p) ==
    IF p > Len(t) \/ t[p] \notin IdStart THEN 0
    ELSE Min({q \in (p + 1)..(Len(t) + 1) : q = Len(t) + 1 \/ t[q] \notin IdChar})

\* the characters between positions a and b (both excluded) are identifiers
\* separated by commas, with white space around them at most
RECURSIVE IsNameList(_, _, _)
IsNameList(t, a, b) ==
    LET start == SkipSpace(t, a + 1)
        end   == IdentifierEnd(t, start)
        after == IF end = 0 THEN 0 ELSE SkipSpace(t, end)
    IN /\ start < b /\ end # 0 /\ after <= b
       /\ \/ after = b
          \/ after < b /\ t[after] = "," /\ IsNameList(t, after, b)

\* import, then between braces a list of names (or, when any is true, one
\* character at least), then from, then a path of one character at least between
\* quotes, and possibly a semicolon; with white space of the least length given
\* after import, before from and after from
NamedForm(t, least, any) ==
    LET open  == SkipSpace(t, Len(ImportWord) + 1)
        close == FirstOf(t, {"}"}, open + 1)
        from  == SkipSpace(t, close + 1)
        quote == SkipSpace(t, from + Len(FromWord))
        end   == FirstOf(t, Quotes, quote + 1)
    IN /\ StandsAt(t, ImportWord, 1)
       /\ open - (Len(ImportWord) + 1) >= least
       /\ open <= Len(t) /\ t[open] = "{"
       /\ close <= Len(t)
       /\ IF any THEN close > open + 1 ELSE IsNameList(t, open, close)
       /\ from - (close + 1) >= least /\ StandsAt(t, FromWord, from)
       /\ quote - (from + Len(FromWord)) >= least
       /\ quote <= Len(t) /\ t[quote] \in Quotes
       /\ end <= Len(t) /\ end > quote + 1
       /\ \/ end = Len(t)
          \/ end + 1 = Len(t) /\ t[Len(t)] = ";"

\* the grammar as stated: the braces hold one or more identifiers
StatedNamedForm(line) ==
    NamedForm(Trim(line), 0, FALSE)
\* the grammar of the code: the braces hold one character at least
LooseNamedForm(line) ==
    NamedForm(Trim(line), 1, TRUE)

\* C13 as stated: with named-import checking enabled, every line that begins
\* with the word import gets exactly one finding of imports.namedOnly unless it
\* has the form import {Identifiers} from "path" with an optional semicolon,
\* the braces holding one or more identifiers, and none when it has that form.
C13_NamedFindingUnlessIdentifierList ==
    \A call \in 1..stats.files : \A k \in 1..LineCount(TheContent) :
        (srcDir.exists /\ RULES.imports.on /\ RULES.imports.namedOnly
         /\ BeginsWithImportWord(TextLine(TheContent, k)))
        => Cardinality(FindingsAt(call, "imports.namedOnly", k)) =
              (IF StatedNamedForm(TextLine(TheContent, k)) THEN 0 ELSE 1)

\* C13 amended: with named-import checking enabled, a line gets exactly one
\* finding of imports.namedOnly, a warning, when its text without the white
\* space around it starts with import and a space and has not the form import,
\* white space, an opening brace, one or more characters other than the closing
\* brace, a closing brace, white space, from, white space, a quote, one or more
\* characters other than quotes, a quote and an optional semicolon; every other
\* line gets none.
C13_NamedFindingUnlessLooseForm ==
    \A call \in 1..stats.files : \A k \in 1..LineCount(TheContent) :
        (srcDir.exists /\ RULES.imports.on /\ RULES.imports.namedOnly)
        => /\ Cardinality(FindingsAt(call, "imports.namedOnly", k)) =
                 (IF /\ StartsWith(Trim(TextLine(TheContent, k)), ImportKw)
                     /\ ~LooseNamedForm(TextLine(TheContent, k))
                  THEN 1 ELSE 0)
           /\ \A i \in FindingsAt(call, "imports.namedOnly", k) :
                 issues[i].severity = "warning"

\* C13: a file of an import of two names and an import without braces has been
\* checked with named-import checking enabled; the first line has no finding and
\* the second has one
C13_Witness ==
    /\ srcDir.exists /\ TheContent = JoinLines(<<LineImportTwoNames, LineImportA>>)
    /\ RULES.imports.on /\ RULES.imports.namedOnly
    /\ stats.files > 0
    /\ FindingsAt(1, "imports.namedOnly", 1) = {}
    /\ FindingsAt(1, "imports.namedOnly", 2) # {}

\* the lines of a text that the import pass collects, in order
ImportLinesOf(text) ==
    {k \in 1..LineCount(text) : StartsWith(Trim(TextLine(text, k)), ImportKw)}
\* the import line before import line k; 0 when k is the first
PreviousImport(text, k) ==
    IF \A j \in ImportLinesOf(text) : j >= k THEN 0
    ELSE Max({j \in ImportLinesOf(text) : j < k})

\* the from clause that starts at position f of a line: from, white space, a
\* quote, one or more characters other than quotes, a quote.  The positions of
\* the two quotes, <<0, 0>> when there is no clause at f.
FromClauseAt(t, f) ==
    LET quote == SkipSpace(t, f + Len(FromWord))
        end   == FirstOf(t, Quotes, quote + 1)
    IN IF /\ StandsAt(t, FromWord, f)
          /\ quote > f + Len(FromWord)
          /\ quote <= Len(t) /\ t[quote] \in Quotes
          /\ end <= Len(t) /\ end > quote + 1
       THEN <<quote, end>> ELSE <<0, 0>>
HasPath(line) == \E f \in 1..Len(line) : FromClauseAt(line, f) # <<0, 0>>
\* the path of the first from clause of a line that has one
PathOf(line) ==
    LET first == FromClauseAt(line, Min({f \in 1..Len(line) : FromClauseAt(line, f) # <<0, 0>>}))
    IN SubSeq(line, first[1] + 1, first[2] - 1)

\* a string is smaller than another when it is a proper prefix of it, or has the
\* smaller character at the first position where they differ
Smaller(a, b) ==
    \E k \in 1..Len(b) :
        /\ \A j \in 1..(k - 1) : j <= Len(a) /\ a[j] = b[j]
        /\ \/ k = Len(a) + 1
           \/ k <= Len(a) /\ CharCode(a[k]) < CharCode(b[k])

\* import line k and the import line before it both have a path, and the path
\* of line k is the smaller
Inversion(text, k) ==
    /\ PreviousImport(text, k) # 0
    /\ HasPath(TextLine(text, k)) /\ HasPath(TextLine(text, PreviousImport(text, k)))
    /\ Smaller(PathOf(TextLine(text, k)), PathOf(TextLine(text, PreviousImport(text, k))))

C15_NoPathNoAlphabeticalFinding ==
    \A call \in 1..stats.files : \A k \in 1..LineCount(TheContent) :
        (srcDir.exists /\ k \in ImportLinesOf(TheContent) /\ ~HasPath(TextLine(TheContent, k)))
        => /\ FindingsAt(call, "imports.alphabetical", k) = {}
           /\ \A n \in ImportLinesOf(TheContent) :
                 PreviousImport(TheContent, n) = k
                 => FindingsAt(call, "imports.alphabetical", n) = {}
           /\ (RULES.imports.on /\ RULES.imports.namedOnly)
              => FindingsAt(call, "imports.namedOnly", k) # {}
           /\ \E i \in 1..Len(issues) : origin[i] = call /\ issues[i].rule \in StructureRuleIds

\* C15: a file with an import without a from clause between two imports with
\* paths, the later path the smaller, has been checked with alphabetical
\* checking enabled and has no finding of imports.alphabetical
C15_Witness ==
    /\ srcDir.exists
    /\ TheContent = JoinLines(<<LineImportB, LineImportA, LineImportNamedA>>)
    /\ RULES.imports.on /\ RULES.imports.alphabetical
    /\ stats.files > 0
    /\ CallFindings(1, "imports.alphabetical") = {}

(***************************************************************************)
(* Properties of declarations (SpecNaming)                                 *)
(***************************************************************************)
\* the text of the one file is the given one
Holds(text) == srcDir.exists /\ TheContent = text

\* the three styles of names, read character by character
CapWordsName(n) ==
    Len(n) >= 1 /\ n[1] \in Upper /\ \A k \in 2..Len(n) : n[k] \in Upper \cup Lower \cup Digit
UpperCaseName(n) ==
    Len(n) >= 1 /\ n[1] \in Upper /\ \A k \in 2..Len(n) : n[k] \in Upper \cup Digit \cup {"_"}
UnderscoreMixedCaseName(n) ==
    /\ Len(n) >= 2 /\ n[1] = "_" /\ n[2] \in Lower
    /\ \A k \in 3..Len(n) : n[k] \in Upper \cup Lower \cup Digit

\* the contract rule is the one the code checks
ContractRuleOn == RULES.naming.on /\ RULES.naming.contracts = "CapWords"

\* nothing but white space stands before the keyword of the declaration
LeadsItsLine(d) == \A k \in 1..Len(d.lead) : d.lead[k] \in WS

\* C16 as stated: with the contract rule set to CapWords, every contract
\* declaration whose name is not in CapWords gets exactly one finding of
\* naming.contracts and every declaration whose name is in CapWords gets none;
\* the file contract myToken { } gets one, at line 1.
C16_OneFindingPerContractNotCapWords ==
    \A call \in 1..stats.files :
        ContractRuleOn =>
            /\ \A d \in ContractDecls :
                  Holds(ContractText(d)) =>
                     Cardinality(CallFindings(call, "naming.contracts")) =
                        (IF CapWordsName(d.name) THEN 0 ELSE 1)
            /\ Holds(ContractText([lead |-> LeadNone, name |-> NameLowerToken])) =>
                  \A i \in CallFindings(call, "naming.contracts") : issues[i].line = 1

\* C16 amended: with the contract rule set to CapWords, every contract
\* declaration whose keyword is the first word of its line gets exactly one
\* finding of naming.contracts, which names it, when its name is not in CapWords
\* and none when it is; a declaration whose keyword stands behind another word
\* gets none; two declarations get one finding each, in order; the file
\* contract myToken { } gets one, at line 1.
C16_OneFindingPerLeadingContractNotCapWords ==
    \A call \in 1..stats.files :
        ContractRuleOn =>
            /\ \A d \in ContractDecls :
                  Holds(ContractText(d)) =>
                     /\ Cardinality(CallFindings(call, "naming.contracts")) =
                           (IF LeadsItsLine(d) /\ ~CapWordsName(d.name) THEN 1 ELSE 0)
                     /\ \A i \in CallFindings(call, "naming.contracts") :
                           issues[i].message.name = d.name
            /\ \A p \in ContractPairs :
                  Holds(ContractPairText(p)) =>
                     /\ Cardinality(FindingsAt(call, "naming.contracts", 1)) =
                           (IF CapWordsName(p.first) THEN 0 ELSE 1)
                     /\ Cardinality(FindingsAt(call, "naming.contracts", 2)) =
                           (IF CapWordsName(p.second) THEN 0 ELSE 1)
                     /\ Cardinality(CallFindings(call, "naming.contracts")) <= 2
            /\ Holds(ContractText([lead |-> LeadNone, name |-> NameLowerToken])) =>
                  \A i \in CallFindings(call, "naming.contracts") : issues[i].line = 1

\* C16: the file contract myToken { } has been checked with the contract rule
\* set to CapWords and has its finding at line 1
C16_Witness ==
    /\ Holds(ContractText([lead |-> LeadNone, name |-> NameLowerToken]))
    /\ ContractRuleOn
    /\ stats.files > 0
    /\ \E i \in CallFindings(1, "naming.contracts") : issues[i].line = 1

\* the constant rule is the one the code checks
ConstantRuleOn == RULES.naming.on /\ RULES.naming.constants = "UPPER_CASE"

\* the declaration states a visibility
StatesVisibility(d) == d.vis \in {VisPublic, VisPrivate}

\* C17: with the constant rule set to UPPER_CASE, a declaration
\* <type> <visibility> constant <NAME> gets a finding of naming.constants
\* exactly when NAME is not in UPPER_CASE, and the finding names NAME:
\* uint256 public constant MAX_SUPPLY = 1000; gets none, and
\* uint256 public constant maxSupply = 1000; gets one that names maxSupply.
C17_ConstantFindingIffNameNotUpperCase ==
    \A call \in 1..stats.files : \A d \in ConstantDecls :
        (Holds(ConstantText(d)) /\ ConstantRuleOn /\ StatesVisibility(d)) =>
            /\ Cardinality(CallFindings(call, "naming.constants")) =
                  (IF UpperCaseName(d.name) THEN 0 ELSE 1)
            /\ \A i \in CallFindings(call, "naming.constants") :
                  issues[i].message.name = d.name

\* the argument rule is the one the code checks
ArgumentRuleOn == RULES.naming.on /\ RULES.naming.functionArguments = "_underscoreMixedCase"

\* the fragments of an argument list: what stands between its commas, without
\* the white space around it
Fragments(args) == [i \in 1..Len(Split(args, ",")) |-> Trim(Split(args, ",")[i])]

\* the places of a fragment where a name stands: a word that begins with a
\* letter or an underscore, with white space before it, and after it nothing
\* but white space, or white space at most and an opening bracket
NamePlaces(t) ==
    {p \in WordStarts(t) :
        /\ p > 1 /\ t[p - 1] \in WS /\ t[p] \in IdStart
        /\ \/ SkipSpace(t, p + Len(WordAt(t, p))) = Len(t) + 1
           \/ StandsAt(t, <<"[">>, SkipSpace(t, p + Len(WordAt(t, p))))}
\* the name extracted from a fragment: the first such word
HasName(t) == NamePlaces(t) # {}
ExtractedName(t) == WordAt(t, Min(NamePlaces(t)))

\* the fragments of an argument list that are reported: those with a name that
\* is no data location and is not in _underscoreMixedCase
Offending(args) ==
    {i \in 1..Len(Fragments(args)) :
        /\ HasName(Fragments(args)[i])
        /\ ExtractedName(Fragments(args)[i]) \notin {MemoryWord, StorageWord, CalldataWord}
        /\ ~UnderscoreMixedCaseName(ExtractedName(Fragments(args)[i]))}

\* the line of a declaration: one more than the line ends of its lead
DeclarationLine(d) == 1 + Cardinality({k \in 1..Len(d.lead) : d.lead[k] = NL})

\* the findings of a call are those of the offending fragments of the argument
\* list, in order: errors at the line of the declaration that name the
\* fragments' names
ArgumentFindingsAre(call, d, offending) ==
    /\ Cardinality(CallFindings(call, "naming.functionArguments")) = Cardinality(offending)
    /\ \A i \in CallFindings(call, "naming.functionArguments") :
          /\ issues[i].line = DeclarationLine(d)
          /\ issues[i].severity = "error"
          /\ \E f \in offending :
                /\ issues[i].message.name = ExtractedName(Fragments(d.args)[f])
                /\ Cardinality({j \in CallFindings(call, "naming.functionArguments") : j < i})
                      = Cardinality({g \in offending : g < f})

\* C18 as stated: with the argument rule enabled, every matched function gets
\* exactly one finding of naming.functionArguments, an error at the line of the
\* function, for each argument whose extracted name is not in
\* _underscoreMixedCase, and none for a fragment whose extracted name is memory,
\* storage or calldata.
C18_OneFindingPerArgumentEveryFunction ==
    \A call \in 1..stats.files : \A d \in ArgumentDecls :
        (Holds(ArgumentText(d)) /\ ArgumentRuleOn)
        => ArgumentFindingsAre(call, d, Offending(d.args))

\* C18 amended: the same for the functions that are not named constructor,
\* receive or fallback; a function so named gets no finding for its arguments.
C18_OneFindingPerArgumentUnlessSpecial ==
    \A call \in 1..stats.files : \A d \in ArgumentDecls :
        (Holds(ArgumentText(d)) /\ ArgumentRuleOn)
        => ArgumentFindingsAre(call, d,
                               IF d.name \in {ConstructorWord, ReceiveWord, FallbackWord}
                               THEN {} ELSE Offending(d.args))

\* C18: a function on the second line of its file, with one argument in
\* _underscoreMixedCase and one that is not, has been checked with the argument
\* rule enabled and has one finding, at line 2
C18_Witness ==
    /\ Holds(ArgumentText([lead |-> LeadEmptyLine, name |-> NameTransferFrom,
                           args |-> ArgsOneBad]))
    /\ ArgumentRuleOn
    /\ stats.files > 0
    /\ Cardinality(CallFindings(1, "naming.functionArguments")) = 1
    /\ \A i \in CallFindings(1, "naming.functionArguments") : issues[i].line = 2

\* the name ends with ed or with Set; the other suffixes of the code's list
\* (Updated, Created, Deleted, Added, Removed, Changed) end with ed themselves
ReadsAsPastTense(n) ==
    \/ Len(n) >= 2 /\ SubSeq(n, Len(n) - 1, Len(n)) = <<"e", "d">>
    \/ Len(n) >= 3 /\ SubSeq(n, Len(n) - 2, Len(n)) = <<"S", "e", "t">>

\* the findings of a file of one event declaration, for every name
EveryEventChecked ==
    \A call \in 1..stats.files : \A n \in EventNameChoices :
        (Holds(EventText(n)) /\ RULES.naming.on /\ RULES.naming.events = "CapWords"
         /\ RULES.naming.eventsPastTense)
        => /\ Cardinality(CallFindings(call, "naming.events")) =
                 (IF CapWordsName(n) THEN 0 ELSE 1)
           /\ Cardinality(CallFindings(call, "naming.eventsPastTense")) =
                 (IF ReadsAsPastTense(n) THEN 0 ELSE 1)
           /\ (\E k \in 1..Len(pastTenseSuffixes) : EndsWith(n, pastTenseSuffixes[k]))
                 <=> ReadsAsPastTense(n)
           /\ \A i \in CallFindings(call, "naming.events") :
                 /\ issues[i].severity = "error"
                 /\ ~ReadsAsPastTense(n) =>
                       /\ i + 1 \in CallFindings(call, "naming.eventsPastTense")
                       /\ issues[i + 1].line = issues[i].line
           /\ \A i \in CallFindings(call, "naming.eventsPastTense") :
                 issues[i].severity = "info"

\* C19: with the event rule set to CapWords and the past-tense rule enabled,
\* an event declaration gets one finding of naming.events, an error, exactly
\* when its name is not in CapWords, and one finding of naming.eventsPastTense,
\* an info, exactly when its name ends neither with ed nor with one of Updated,
\* Created, Deleted, Added, Removed, Set and Changed, each whatever the other
\* is; a name that fails both gets the error and, next after it, the info;
\* of two declarations of a file, on two lines, each gets its own findings.
C19_BothEventChecksRun ==
    /\ \A call \in 1..stats.files :
          (Holds(EventPairText) /\ RULES.naming.on /\ RULES.naming.events = "CapWords"
           /\ RULES.naming.eventsPastTense)
          => /\ Cardinality(FindingsAt(call, "naming.events", 1)) = 1
             /\ Cardinality(FindingsAt(call, "naming.eventsPastTense", 1)) = 1
             /\ Cardinality(FindingsAt(call, "naming.events", 2)) = 0
             /\ Cardinality(FindingsAt(call, "naming.eventsPastTense", 2)) = 1
    /\ EveryEventChecked

\* C19: an event whose name fails both checks has been checked with both rules
\* enabled and has the error followed by the info
C19_Witness ==
    /\ Holds(EventText(NameLowerTransfer))
    /\ RULES.naming.on /\ RULES.naming.events = "CapWords" /\ RULES.naming.eventsPastTense
    /\ stats.files > 0
    /\ \E i \in CallFindings(1, "naming.events") :
          i + 1 \in CallFindings(1, "naming.eventsPastTense")

(***************************************************************************)
(* Properties of line lengths (SpecLengths)                                *)
(***************************************************************************)
\* the number of characters of line k of a text
LineLength(text, k) == LineEndOf(text, k) - LineEndOf(text, k - 1) - 1

\* C20: with a maximum line length M configured, line k of a checked file gets
\* exactly one finding of layout.maxLineLength when it has more than M
\* characters and none when it has M or fewer; the finding's message holds the
\* line's length and M, and its severity is the one RULE_SEVERITY gives the
\* rule, or warning when it gives none.
C20_LengthFindingIffLongerThanMaximum ==
    \A call \in 1..stats.files : \A k \in 1..LineCount(TheContent) :
        (srcDir.exists /\ RULES.layout.on /\ RULES.layout.maxLineLength > 0) =>
            /\ Cardinality(FindingsAt(call, "layout.maxLineLength", k)) =
                  (IF LineLength(TheContent, k) > RULES.layout.maxLineLength THEN 1 ELSE 0)
            /\ \A i \in FindingsAt(call, "layout.maxLineLength", k) :
                  /\ issues[i].message.n1 = LineLength(TheContent, k)
                  /\ issues[i].message.n2 = RULES.layout.maxLineLength
                  /\ issues[i].severity =
                        (IF RULE_SEVERITY["layout.maxLineLength"] = "" THEN "warning"
                         ELSE RULE_SEVERITY["layout.maxLineLength"])

\* C20: a line of 130 characters has been checked with the maximum 120 and no
\* severity configured, and has the warning, with 130 and 120 in its message
C20_Witness ==
    /\ Holds(Slashes(130))
    /\ RULES.layout.on /\ RULES.layout.maxLineLength = 120
    /\ RULE_SEVERITY["layout.maxLineLength"] = ""
    /\ stats.files > 0
    /\ \E i \in FindingsAt(1, "layout.maxLineLength", 1) :
          /\ issues[i].message.n1 = 130 /\ issues[i].message.n2 = 120
          /\ issues[i].severity = "warning"


(***************************************************************************)
(* Properties of the layout pass (SpecLayout)                              *)
(***************************************************************************)
\* line k of the text holds a tab
HasTab(text, k) == \E p \in 1..Len(text) : text[p] = TAB /\ OnLine(text, p) = k

\* the tab findings of a call are one error at each line with a tab
TabFindingsAtEveryTab(call) ==
    \A k \in 1..LineCount(TheContent) :
        /\ Cardinality(FindingsAt(call, "layout.noTabs", k)) =
              (IF HasTab(TheContent, k) THEN 1 ELSE 0)
        /\ \A i \in FindingsAt(call, "layout.noTabs", k) : issues[i].severity = "error"

\* C21 as stated: with the layout category present and its no-tabs rule
\* enabled, every line with a tab gets exactly one finding of layout.noTabs, an
\* error, whatever the other layout options are.
C21_TabFindingWheneverRuleEnabled ==
    \A call \in 1..stats.files :
        (srcDir.exists /\ RULES.layout.on /\ RULES.layout.noTabs) =>
            TabFindingsAtEveryTab(call)

\* C21: with the layout category present, its no-tabs rule enabled and its
\* indentation set, every line with a tab gets exactly one finding of
\* layout.noTabs, an error, and a line without a tab none, whatever the maximum
\* line length and the trailing white space rule are; with the indentation not
\* set there is no finding of layout.noTabs at all.
C21_TabFindingWhenIndentationSet ==
    \A call \in 1..stats.files :
        srcDir.exists =>
            IF RULES.layout.on /\ RULES.layout.noTabs /\ RULES.layout.indentation # 0
            THEN TabFindingsAtEveryTab(call)
            ELSE CallFindings(call, "layout.noTabs") = {}

\* C21: a file whose one line has a tab in the middle has been checked with
\* the no-tabs rule and the indentation set and no other layout rule, and has
\* the error
C21_Witness ==
    /\ Holds(LineTabMiddle)
    /\ RULES.layout = [on |-> TRUE, indentation |-> 4, noTabs |-> TRUE,
                       maxLineLength |-> 0, noTrailingWhitespace |-> FALSE]
    /\ stats.files > 0
    /\ \E i \in FindingsAt(1, "layout.noTabs", 1) : issues[i].severity = "error"

\* the three rules of the layout pass, in the order the claim gives them
LayoutRuleRank(rule) ==
    CASE rule = "layout.maxLineLength" -> 1
      [] rule = "layout.noTabs" -> 2
      [] rule = "layout.noTrailingWhitespace" -> 3
      [] OTHER -> 0

\* the findings of the layout pass that a call added
LayoutFindings(call) ==
    {i \in 1..Len(issues) : origin[i] = call /\ LayoutRuleRank(issues[i].rule) > 0}

\* line k of the text ends in white space
EndsInWhiteSpace(text, k) ==
    LineLength(text, k) > 0 /\ text[LineEndOf(text, k) - 1] \in {SP, TAB, CR}

\* whether line k, read alone, is to have a finding of the rule
LayoutRuleApplies(rule, text, k) ==
    CASE rule = "layout.maxLineLength" ->
            RULES.layout.maxLineLength > 0 /\ LineLength(text, k) > RULES.layout.maxLineLength
      [] rule = "layout.noTabs" ->
            RULES.layout.indentation # 0 /\ RULES.layout.noTabs /\ HasTab(text, k)
      [] rule = "layout.noTrailingWhitespace" ->
            RULES.layout.noTrailingWhitespace /\ EndsInWhiteSpace(text, k)

\* C22: the layout findings of a checked file stand in the order of the lines
\* and, at one line, in the order MaxLineLength, NoTabs, TrailingWhitespace,
\* so that a line has at most one finding of each rule and three in all;
\* whether a line has the finding of an enabled rule depends on that line and
\* that rule alone; and with the trailing white space rule enabled a line has
\* its finding, a warning, exactly when it ends in white space.
C22_EachLineEachRuleOnItsOwn ==
    \A call \in 1..stats.files :
        srcDir.exists =>
            /\ \A i, j \in LayoutFindings(call) :
                  i < j => \/ issues[i].line < issues[j].line
                           \/ /\ issues[i].line = issues[j].line
                              /\ LayoutRuleRank(issues[i].rule) < LayoutRuleRank(issues[j].rule)
            /\ \A k \in 1..LineCount(TheContent) :
                  Cardinality({i \in LayoutFindings(call) : issues[i].line = k}) <= 3
            /\ RULES.layout.on =>
                  \A k \in 1..LineCount(TheContent) :
                      /\ \A rule \in {"layout.maxLineLength", "layout.noTabs",
                                      "layout.noTrailingWhitespace"} :
                            (FindingsAt(call, rule, k) # {})
                               <=> LayoutRuleApplies(rule, TheContent, k)
                      /\ \A i \in FindingsAt(call, "layout.noTrailingWhitespace", k) :
                            issues[i].severity = "warning"

\* C22: a file of two lines has been checked with the three rules enabled; its
\* first line is too long, holds a tab and ends in a space, and has the three
\* findings in the order of the claim; its second line ends in a carriage
\* return and has the one warning
C22_Witness ==
    /\ Holds(JoinLines(<<LineLongTabTrailing, LineCarriageReturn>>))
    /\ RULES.layout = [on |-> TRUE, indentation |-> 4, noTabs |-> TRUE,
                       maxLineLength |-> 10, noTrailingWhitespace |-> TRUE]
    /\ stats.files > 0
    /\ \E i \in 1..Len(issues) :
          /\ i + 3 <= Len(issues)
          /\ \A d \in 0..3 : origin[i + d] = 1
          /\ [d \in 1..4 |-> issues[i + d - 1].rule] =
                <<"layout.maxLineLength", "layout.noTabs", "layout.noTrailingWhitespace",
                  "layout.noTrailingWhitespace">>
          /\ [d \in 1..4 |-> issues[i + d - 1].line] = <<1, 1, 1, 2>>
          /\ issues[i + 3].severity = "warning"

(***************************************************************************)
(* Properties of the report and of the accumulators (Spec)                 *)
(***************************************************************************)
\* the findings that the last report was printed from
Reported == IF Len(yielded) = 0 THEN <<>> ELSE yielded[Len(yielded)]

\* the place in the findings of the first finding of a file
FirstFindingOf(findings, file) ==
    Min({i \in 1..Len(findings) : findings[i].file = file})

\* the findings of a file, in the order they stand in
FindingsOfFile(findings, file) ==
    LET places == {i \in 1..Len(findings) : findings[i].file = file}
    IN [k \in 1..Cardinality(places) |->
           findings[CHOOSE i \in places : Cardinality({j \in places : j < i}) = k - 1]]

\* C23: the report has one group for each file that has findings; a group
\* holds the findings of its file in the order they were emitted; and the
\* groups stand in the order in which their files were first checked, which
\* need not be the alphabetical one.
C23_GroupsInCheckOrder ==
    /\ {report[g].file : g \in 1..Len(report)} =
          {Reported[i].file : i \in 1..Len(Reported)}
    /\ \A g, h \in 1..Len(report) : g # h => report[g].file # report[h].file
    /\ \A g \in 1..Len(report) :
          report[g].issues = FindingsOfFile(Reported, report[g].file)
    /\ \A g, h \in 1..Len(report) :
          g < h => origin[FirstFindingOf(Reported, report[g].file)]
                      < origin[FirstFindingOf(Reported, report[h].file)]

\* C23: B.sol has been checked before A.sol, both have findings, and the
\* report has the group of B.sol before the group of A.sol
C23_Witness ==
    /\ Len(report) = 2
    /\ report[1].file = FileB /\ report[2].file = FileA
    /\ Len(report[1].issues) > 1
    /\ origin[FirstFindingOf(Reported, FileB)] < origin[FirstFindingOf(Reported, FileA)]

\* the findings of a severity among the findings a step adds
AddedOf(severity) ==
    Cardinality({i \in (Len(issues) + 1)..Len(issues') : issues'[i].severity = severity})

\* the step is a call of checkFile, by main's forEach or by a requiring program
ChecksFile == (pc = "loop" /\ next' # next) \/ apiCalls' # apiCalls

\* C27: a step of the program leaves the findings it found in their places and
\* unchanged, and adds findings at the end only; each finding it adds counts
\* in the counter of its severity and in no other, so that no counter goes
\* down and the three counters together grow by at most the number of findings
\* added; and the counter of files grows by one in a call of checkFile and not
\* at all in any other step.
C27_AppendOnlyIncrementOnly ==
    [][/\ Len(issues') >= Len(issues)
       /\ SubSeq(issues', 1, Len(issues)) = issues
       /\ stats'.errors = stats.errors + AddedOf("error")
       /\ stats'.warnings = stats.warnings + AddedOf("warning")
       /\ stats'.info = stats.info + AddedOf("info")
       /\ stats'.passed = stats.passed
       /\ stats'.files = stats.files + (IF ChecksFile THEN 1 ELSE 0)
       /\ Len(issues') > Len(issues) => ChecksFile]_vars

\* C27: two files have been checked in one run; the findings of the first are
\* followed by those of the second, and the counters of findings add up to
\* the number of findings
C27_Witness ==
    /\ runs = 1 /\ apiCalls = 0
    /\ stats.files = 2
    /\ \E i \in 1..Len(issues) : origin[i] = 1
    /\ \E i \in 1..Len(issues) : origin[i] = 2
    /\ issues[1].file # issues[Len(issues)].file
    /\ stats.errors > 0 /\ stats.warnings > 0
    /\ stats.errors + stats.warnings + stats.info = Len(issues)

\* the configuration lists names, none of them '*', and one of them has no
\* file <name>.sol in the source directory, or there is no source directory
DiscoveryMustFail ==
    \/ ~srcDir.exists
    \/ /\ \A i \in 1..Len(CONTRACT_NAMES) : CONTRACT_NAMES[i] # <<"*">>
       /\ \E i \in 1..Len(CONTRACT_NAMES) :
             \A f \in 1..Len(srcDir.files) :
                 srcDir.files[f].file # CONTRACT_NAMES[i] \o <<".", "s", "o", "l">>

\* C28: when a listed name has no file, or the source directory does not
\* exist, a run ends in file discovery with exit status 1: no file is ever
\* checked, no finding is recorded and no report is printed.
C28_MissingFileEndsRunBeforeChecks ==
    DiscoveryMustFail =>
        /\ pc \in {"idle", "exited"}
        /\ runs > 0 => (pc = "exited" /\ exitCode = 1)
        /\ stats.files = 0
        /\ issues = <<>>
        /\ report = <<>>
        /\ Len(yielded) = 0

\* C28: the configuration lists B and A, the source directory has A.sol and
\* no B.sol, and the run has ended with exit status 1
C28_Witness ==
    /\ CONTRACT_NAMES = <<NameB, NameA>>
    /\ srcDir.exists
    /\ \E f \in 1..Len(srcDir.files) : srcDir.files[f].file = FileA
    /\ \A f \in 1..Len(srcDir.files) : srcDir.files[f].file # FileB
    /\ runs = 1
    /\ pc = "exited" /\ exitCode = 1
    /\ issues = <<>>

(***************************************************************************)
(* Properties of checkFile on any text (SpecTexts)                         *)
(***************************************************************************)
\* the findings that a step adds at the end of issues
Added == SubSeq(issues', Len(issues) + 1, Len(issues'))

\* C24: whatever the text of the file, a step that checks it runs the four
\* passes to their end: no exception ends the process, the findings of all
\* four passes are added, and the findings collected before the step are
\* still there, unchanged and in their places.
C24_PassesCompleteAndKeepFindings ==
    [][stats'.files # stats.files =>
          /\ pc' = pc
          /\ exitCode' = exitCode
          /\ Len(issues') >= Len(issues)
          /\ SubSeq(issues', 1, Len(issues)) = issues
          /\ \A i \in 1..Len(Added) : Added[i] # Thrown
          /\ Added = checkFileStructure(FileA, scans[TheContent])
                        \o checkImports(FileA, scans[TheContent])
                        \o checkNaming(FileA, scans[TheContent])
                        \o checkLayout(FileA, scans[TheContent])]_vars

\* C24: a file whose braces are not closed and whose last line ends in a space
\* has been checked twice under the shipped rules; the findings of the first
\* check are there, and the second check went on to the last line of the last
\* pass
C24_Witness ==
    /\ Holds(TextOpenBrace)
    /\ RULES = ShippedRules
    /\ stats.files = 2
    /\ pc # "exited"
    /\ \E i \in 1..Len(issues) : origin[i] = 1 /\ issues[i].rule = "naming.contracts"
    /\ origin[Len(issues)] = 2
    /\ issues[Len(issues)].rule = "layout.noTrailingWhitespace"
    /\ issues[Len(issues)].line = 2

(***************************************************************************)
(* The specification of severities: RULE_SEVERITY as shipped, with the     *)
(* entry of one of the reported rules changed or removed, on a directory   *)
(* of one file.                                                            *)
(***************************************************************************)
\* the rule identifiers of all the addIssue calls
ReportedRuleIds == StructureRuleIds \cup ImportsRuleIds \cup NamingRuleIds \cup LayoutRuleIds

\* RULE_SEVERITY of build-config.js: its entry for each reported rule, "" for
\* a rule it has no entry for
ShippedSeverityMap ==
    [rule \in ReportedRuleIds |->
        CASE rule \in {"naming.contracts", "naming.functions", "naming.functionArguments",
                       "naming.privateInternalFunctions", "structure.spdxLicense"} -> "error"
          [] rule \in {"layout.maxLineLength", "imports.alphabetical"} -> "warning"
          [] rule = "naming.eventsPastTense" -> "info"
          [] OTHER -> ""]

\* the shipped map with one entry set to a severity or removed
SeverityMaps ==
    {[ShippedSeverityMap EXCEPT ![rule] = s] :
        rule \in ReportedRuleIds, s \in {"", "error", "warning", "info"}}

\* texts with findings of every rule under the shipped rules
SeverityTexts ==
    {TextMixed, TextErr, TextInfo, TextWarn, TextSpdxSecond, Slashes(121),
     JoinLines(<<LineImportB, LineImportNamedA>>),
     EventText(NameLowerTransfer),
     ConstantText([type |-> TypeUint, vis |-> VisPublic, name |-> NameMaxSupplyMixed]),
     FunctionText(NameDoIt, TailPublic), FunctionText(NameHelper, TailPrivate),
     ArgumentText([lead |-> LeadNone, name |-> NameTransferFrom, args |-> ArgsBad])}

InitSeverities ==
    /\ scans = [content \in SeverityTexts |-> Scan(content)]
    /\ RULES = ShippedRules
    /\ RULE_SEVERITY \in SeverityMaps
    /\ CONTRACT_NAMES = <<Star>>
    /\ srcDir \in OneFileDirectories(SeverityTexts)
    /\ InitChecker

SpecSeverities == InitSeverities /\ [][Next]_vars

(***************************************************************************)
(* Properties of the severities (SpecSeverities)                           *)
(***************************************************************************)
\* the severity each rule has when RULE_SEVERITY has no entry for it
DefaultSeverity(rule) ==
    CASE rule \in {"structure.spdxLicense", "naming.contracts", "naming.functions",
                   "naming.privateInternalFunctions", "naming.functionArguments",
                   "naming.events", "naming.constants", "layout.noTabs"} -> "error"
      [] rule = "naming.eventsPastTense" -> "info"
      [] OTHER -> "warning"

\* C25: every finding has the severity that RULE_SEVERITY gives its rule, or
\* the rule's default severity when RULE_SEVERITY has no entry for the rule,
\* and that severity is error, warning or info.
C25_SeverityFromMapElseDefault ==
    \A i \in 1..Len(issues) :
        /\ issues[i].severity =
              (IF RULE_SEVERITY[issues[i].rule] # "" THEN RULE_SEVERITY[issues[i].rule]
               ELSE DefaultSeverity(issues[i].rule))
        /\ issues[i].severity \in {"error", "warning", "info"}

(***************************************************************************)
(* Properties of the line numbers of findings (SpecNaming, SpecTexts)      *)
(***************************************************************************)
\* the word that begins the declarations a naming rule is about; the rule for
\* constants has none, its declarations begin with their first token
KeywordOf(rule) ==
    CASE rule = "naming.contracts" -> ContractWord
      [] rule \in {"naming.functions", "naming.privateInternalFunctions",
                   "naming.functionArguments"} -> FunctionWord
      [] rule \in {"naming.events", "naming.eventsPastTense"} -> EventWord
      [] OTHER -> <<>>

\* the lines of the text on which a declaration that the finding may be about
\* begins: the lines with the keyword of its rule or, for a constant, with
\* the token that the finding names
DeclarationLines(text, finding) ==
    LET word == IF finding.rule = "naming.constants" THEN finding.message.name
                ELSE KeywordOf(finding.rule)
    IN {OnLine(text, p) : p \in {q \in 1..Len(text) : StandsAt(text, word, q)}}

\* C26: every finding of the naming pass has the line on which the keyword of
\* its declaration stands (for a constant, its first token), counted from 1,
\* also when the declaration is indented or has empty lines before it.
C26_NamingFindingOnDeclarationLine ==
    \A i \in 1..Len(issues) :
        (srcDir.exists /\ issues[i].rule \in NamingRuleIds) =>
            issues[i].line \in DeclarationLines(TheContent, issues[i])

\* C30: every finding of a checked file has a line from 1 to the number of
\* lines of the file, which is one more than the number of its newlines,
\* whatever the text and the rules.
C30_FindingLinesWithinFile ==
    \A i \in 1..Len(issues) :
        srcDir.exists =>
            /\ issues[i].line >= 1
            /\ issues[i].line <= LineCount(TheContent)

\* C30: a file of seven lines whose last line declares a constant has been
\* checked under the shipped rules, and has findings at its first and at its
\* last line
C30_Witness ==
    /\ Holds(TextLateDeclarations)
    /\ RULES = ShippedRules
    /\ LineCount(TheContent) = 7
    /\ stats.files > 0
    /\ \E i \in 1..Len(issues) : issues[i].line = 1
    /\ \E i \in 1..Len(issues) : issues[i].line = 7 /\ issues[i].rule = "naming.constants"

(***************************************************************************)
(* The specification of runs of imports: the import category present or    *)
(* missing and every choice of its two rules, on a directory of one file   *)
(* of three or four imports, with and without a from clause.               *)
(***************************************************************************)
ChainTexts ==
    {JoinLines(<<a, b, c>>) : a \in ImportRunLines, b \in ImportRunLines,
                              c \in ImportRunLines}
    \cup {JoinLines(<<a, b, c, d>>) :
             a \in {LineImportB, LineImportUpperPath},
             b \in {LineImportA, LineImportNamedA, LineImportB},
             c \in {LineImportA, LineImportNamedA, LineImportB},
             d \in {LineImportNamedA, LineImportUpperPath}}

InitChains ==
    /\ scans = [content \in ChainTexts |-> Scan(content)]
    /\ RULES \in {[ShippedRules EXCEPT !.imports = i] : i \in ImportRules}
    /\ RULE_SEVERITY = ShippedSeverity
    /\ CONTRACT_NAMES = <<Star>>
    /\ srcDir \in OneFileDirectories(ChainTexts)
    /\ InitChecker

SpecChains == InitChains /\ [][Next]_vars

(***************************************************************************)
(* The comparison chain of the import pass (SpecChains)                    *)
(***************************************************************************)
\* import line n has a path, the import line before it has none, and an
\* import line further up has a path that is greater than the path of line n
AfterPathlessImport(text, n) ==
    /\ n >= 3
    /\ n \in ImportLinesOf(text)
    /\ HasPath(TextLine(text, n))
    /\ PreviousImport(text, n) # 0
    /\ ~HasPath(TextLine(text, PreviousImport(text, n)))
    /\ \E j \in ImportLinesOf(text) :
          /\ j < PreviousImport(text, n)
          /\ HasPath(TextLine(text, j))
          /\ Smaller(PathOf(TextLine(text, n)), PathOf(TextLine(text, j)))

\* C29: an import that follows an import without a from clause has no finding
\* of imports.alphabetical, although its path is smaller than the path of an
\* import further up: it is compared with the import line immediately before
\* it and with no other.
C29_PathlessImportEndsTheChain ==
    \A call \in 1..stats.files : \A n \in 1..LineCount(TheContent) :
        (srcDir.exists /\ AfterPathlessImport(TheContent, n)) =>
            /\ FindingsAt(call, "imports.alphabetical", n) = {}
            /\ FindingsAt(call, "imports.alphabetical", PreviousImport(TheContent, n)) = {}

\* C29: the file with the imports of ./b.sol, of ./a.sol without a from
\* clause, and of ./a.sol with one has been checked with both import rules
\* enabled: the second line was read as an import, it has the finding of
\* imports.namedOnly, and the third line has no finding of
\* imports.alphabetical
C29_Witness ==
    /\ Holds(JoinLines(<<LineImportB, LineImportA, LineImportNamedA>>))
    /\ AfterPathlessImport(TheContent, 3)
    /\ RULES.imports = [on |-> TRUE, namedOnly |-> TRUE, alphabetical |-> TRUE]
    /\ stats.files > 0
    /\ FindingsAt(1, "imports.namedOnly", 2) # {}
    /\ FindingsAt(1, "imports.alphabetical", 3) = {}
=============================================================================
